---- MODULE Spec2Model ----
(***************************************************************************)
(* Verification model of the OrgLang runtime (suderio/orglang).            *)
(*                                                                         *)
(* Part I models the resource / iterator / flow engine and the cooperative *)
(* fiber scheduler of src/internal/codegen/orglang_header.h, driven by the *)
(* generated-program shapes of src/test/feature/arena_test.c.              *)
(* Part II models the core runtime of src/pkg/runtime: the chained-page    *)
(* arena, the tagged value word, the numeric tower, the hash table and    *)
(* the memory functions handed to GMP.                                     *)
(*                                                                         *)
(* Conventions                                                             *)
(*   - an OrgValue* is an index into heap (NULL is 0); a struct reached    *)
(*     through exactly one OrgValue (OrgList, OrgResource, OrgIterator,    *)
(*     OrgResourceInstance, OrgScopedIterator) is stored inside it;        *)
(*   - a C string is a tuple of one-character strings;                     *)
(*   - an OrgFiber* is an index into fibers, an Arena* of Part I an index  *)
(*     into arenas, which is also the integer "%lld" prints for it;        *)
(*   - every runtime function is an operator over a machine record m that  *)
(*     returns [m |-> machine after the call, ret |-> returned value];     *)
(*   - Bind(x, F) is C's statement sequencing: x is evaluated once and F   *)
(*     continues with its value;                                           *)
(*   - calls, pulls, enq, res, spawnedBy, cur, lastOp and slots are        *)
(*     history variables: they record what the code did and influence      *)
(*     nothing; slots[i] is the value of current_fiber_arena when the i-th *)
(*     resume callback was invoked.                                        *)
(*   - arena_alloc's "Arena out of memory" exit is not modelled: arenas    *)
(*     are taken to be large enough for the bounded runs explored.         *)
(***************************************************************************)
EXTENDS Integers, Sequences, FiniteSets, TLC

VARIABLES heap, arenas, fibers, sched, running, crashed,
          calls, pulls, enq, res, spawnedBy, cur, lastOp, nops, src, held,
          current_fiber_arena, slots

\* Part II: the page arena of src/pkg/runtime/core
VARIABLES page_arena, pages, cp, saved

\* Part II: a tagged value word under test
VARIABLES small

\* Part II: the operands and the result of an arithmetic operation
VARIABLES num

\* Part II: a table, the history of its keys and the last call on it
VARIABLES tab

\* Part II: the memory GMP's limbs are kept in, the blocks GMP holds and
\* the last call of one of its memory functions
VARIABLES gmp

arenavars == <<page_arena, pages, cp, saved>>

hdrvars == <<heap, arenas, fibers, sched, running, crashed,
             calls, pulls, enq, res, spawnedBy, cur, src, held,
             current_fiber_arena, slots>>

corevars == <<arenavars, small, num, tab, gmp>>

vars == <<hdrvars, lastOp, nops, corevars>>

NULL == 0

(***************************************************************************)
(* Bounds of the exploration.                                              *)
(***************************************************************************)
MaxLen == 2
MaxOps == 3
MaxFairOps == 2
MaxFlowOps == 3
MaxScopeOps == 3
MaxResOps == 3
MaxMidOps == 4
MaxGmpOps == 2
MaxAllocs == 3
UintBits == 11
MaxPush == 6
MaxFill == 19
WordBits == 8

(***************************************************************************)
(* C strings, atoll and sprintf("%lld").                                   *)
(***************************************************************************)
Digits == <<"0", "1", "2", "3", "4", "5", "6", "7", "8", "9">>

IsDigit(c) == \E d \in 1..10 : Digits[d] = c

DigitVal(c) == (CHOOSE d \in 1..10 : Digits[d] = c) - 1

RECURSIVE ParseDigits(_, _, _)
ParseDigits(s, i, acc) ==
  IF i > Len(s) \/ ~IsDigit(s[i]) THEN acc
  ELSE ParseDigits(s, i + 1, acc * 10 + DigitVal(s[i]))

atoll(s) ==
  IF Len(s) > 0 /\ s[1] = "-" THEN 0 - ParseDigits(s, 2, 0)
  ELSE IF Len(s) > 0 /\ s[1] = "+" THEN ParseDigits(s, 2, 0)
  ELSE ParseDigits(s, 1, 0)

RECURSIVE FormatNat(_)
FormatNat(n) ==
  IF n < 10 THEN <<Digits[n + 1]>>
  ELSE Append(FormatNat(n \div 10), Digits[(n % 10) + 1])

sprintf_lld(n) == IF n < 0 THEN <<"-">> \o FormatNat(0 - n) ELSE FormatNat(n)

STR_Error == <<"E", "r", "r", "o", "r">>
STR_TrackedState ==
  <<"T", "r", "a", "c", "k", "e", "d", "S", "t", "a", "t", "e">>

(***************************************************************************)
(* Sequencing and results.                                                 *)
(***************************************************************************)
Bind(x, F(_)) == CHOOSE y \in {F(v) : v \in {x}} : TRUE

Ret(m, v) == [m |-> m, ret |-> v]

(***************************************************************************)
(* Value construction (arena_alloc followed by field initialisation).      *)
(***************************************************************************)
New(m, obj) == Ret([m EXCEPT !.heap = Append(@, obj)], Len(m.heap) + 1)

org_error_make(m, a) == New(m, [type |-> "ORG_ERROR_TYPE"])

org_int_from_str(m, a, s) == New(m, [type |-> "ORG_INT_TYPE", str_val |-> s])

org_string_from_c(m, a, s) == New(m, [type |-> "ORG_STR_TYPE", str_val |-> s])

org_func_create(m, a, func) == New(m, [type |-> "ORG_FUNC_TYPE", func |-> func])

org_resource_create(m, a, setup, step, teardown, next) ==
  New(m, [type |-> "ORG_RESOURCE_TYPE", setup |-> setup, step |-> step,
          teardown |-> teardown, next |-> next])

org_iterator_create(m, a, next, state) ==
  New(m, [type |-> "ORG_ITERATOR_TYPE", next |-> next, state |-> state])

org_list_make(m, a, items) ==
  New(m, [type |-> "ORG_LIST_TYPE", list_val |-> items])

org_pair_make(m, a, key, val) ==
  New(m, [type |-> "ORG_PAIR_TYPE", list_val |-> <<key, val>>])

TypeOf(m, v) == IF v = NULL THEN "NULL" ELSE m.heap[v].type

IsFunc(m, v) == v # NULL /\ m.heap[v].type = "ORG_FUNC_TYPE"

org_value_to_long(m, v) ==
  IF v = NULL THEN 0
  ELSE IF m.heap[v].type \in {"ORG_INT_TYPE", "ORG_DEC_TYPE"}
       THEN atoll(m.heap[v].str_val)
  ELSE IF m.heap[v].type = "ORG_STR_TYPE" THEN Len(m.heap[v].str_val)
  ELSE IF m.heap[v].type = "ORG_LIST_TYPE" THEN Len(m.heap[v].list_val)
  ELSE 0

org_value_to_cstring(m, v) ==
  IF v = NULL THEN <<>>
  ELSE IF m.heap[v].type \in {"ORG_STR_TYPE", "ORG_INT_TYPE"}
       THEN m.heap[v].str_val
  ELSE <<>>

arena_resource_register(m, a, inst) ==
  IF a = NULL \/ inst = NULL THEN m
  ELSE [m EXCEPT !.heap[inst].next_resource = m.arenas[a].resources_head,
                 !.arenas[a].resources_head = inst]

(***************************************************************************)
(* The big-number glue's current-arena slot (src/pkg/runtime/gmp).         *)
(***************************************************************************)
org_gmp_set_arena(m, arena) == [m EXCEPT !.current_fiber_arena = arena]

org_gmp_get_arena(m) == m.current_fiber_arena

(***************************************************************************)
(* Scheduler: org_sched_init, org_sched_spawn.                             *)
(***************************************************************************)
org_sched_init(m, global_arena) ==
  [m EXCEPT !.sched = [global_arena |-> global_arena, ready_head |-> NULL,
                       ready_tail |-> NULL, fiber_id_counter |-> 1],
            !.arenas[global_arena].context = 1]

\* Variant: the new fiber is pushed at the head of the ready queue.
org_sched_spawn_lifo(m, func, state) ==
  LET f == Len(m.fibers) + 1
      fib == [id |-> m.sched.fiber_id_counter, resume |-> func,
              state |-> state, result |-> NULL,
              next |-> m.sched.ready_head, parent |-> NULL,
              arena |-> m.sched.global_arena]
  IN Ret([m EXCEPT !.fibers = Append(@, fib),
                   !.sched.fiber_id_counter = @ + 1,
                   !.enq = Append(@, f),
                   !.spawnedBy = Append(@, m.cur),
                   !.sched.ready_head = f,
                   !.sched.ready_tail = IF @ # NULL THEN @ ELSE f],
         f)

org_sched_spawn(m, func, state) ==
  LET a == m.sched.global_arena
      f == Len(m.fibers) + 1
      fib == [id |-> m.sched.fiber_id_counter, resume |-> func,
              state |-> state, result |-> NULL, next |-> NULL,
              parent |-> NULL, arena |-> a]
  IN Bind([m EXCEPT !.fibers = Append(@, fib),
                    !.sched.fiber_id_counter = @ + 1,
                    !.enq = Append(@, f),
                    !.spawnedBy = Append(@, m.cur)],
          LAMBDA m1 :
            IF m1.sched.ready_tail # NULL
            THEN Ret([m1 EXCEPT !.fibers[m1.sched.ready_tail].next = f,
                                !.sched.ready_tail = f], f)
            ELSE Ret([m1 EXCEPT !.sched.ready_head = f,
                                !.sched.ready_tail = f], f))

(***************************************************************************)
(* Iterators.  IterNext is the indirect call it->next(a, it); CallFn is    *)
(* the indirect call fn->func_val->func(a, this, left, right).             *)
(***************************************************************************)
RECURSIVE IterNext(_, _, _, _)
RECURSIVE CallFn(_, _, _, _, _, _)

\* Variant: the cursor is advanced by two.
list_iterator_next_skip(m, a, it) ==
  LET st == m.heap[it].state
      source_val == m.heap[st].list_val[1]
      index == org_value_to_long(m, m.heap[st].list_val[2])
  IN IF TypeOf(m, source_val) \notin {"ORG_LIST_TYPE", "ORG_PAIR_TYPE"}
        \/ index >= Len(m.heap[source_val].list_val)
     THEN Ret(m, NULL)
     ELSE Bind(org_int_from_str(m, a, sprintf_lld(index + 2)),
               LAMBDA r : Ret([r.m EXCEPT !.heap[st].list_val[2] = r.ret],
                              m.heap[source_val].list_val[index + 1]))

list_iterator_next(m, a, it) ==
  LET st == m.heap[it].state
      source_val == m.heap[st].list_val[1]
      index_val == m.heap[st].list_val[2]
      index == org_value_to_long(m, index_val)
      Advance(item) ==
        Bind(org_int_from_str(m, a, sprintf_lld(index + 1)),
             LAMBDA r : Ret([r.m EXCEPT !.heap[st].list_val[2] = r.ret], item))
  IN IF TypeOf(m, source_val) \notin {"ORG_LIST_TYPE", "ORG_PAIR_TYPE"}
     THEN \* source_val->list_val was never initialised: undefined behaviour
          CASE m.ub = "crash" -> Ret([m EXCEPT !.crashed = TRUE], NULL)
            [] m.ub = "end" -> Ret(m, NULL)
            [] OTHER -> Advance(source_val)
     ELSE IF index >= Len(m.heap[source_val].list_val) THEN Ret(m, NULL)
          ELSE Advance(m.heap[source_val].list_val[index + 1])

org_list_iterator(m, a, list) ==
  Bind(org_int_from_str(m, a, <<"0">>), LAMBDA idx :
  Bind(org_list_make(idx.m, a, <<list, idx.ret>>), LAMBDA state :
  org_iterator_create(state.m, a, "list_iterator_next", state.ret)))

resource_iterator_next(m, a, it) ==
  LET instance_val == m.heap[it].state
  IN IF TypeOf(m, instance_val) # "ORG_RESOURCE_INSTANCE_TYPE"
     THEN Ret(m, NULL)
     ELSE LET next_func == m.heap[m.heap[instance_val].def].next
          IN IF ~IsFunc(m, next_func) THEN Ret(m, NULL)
             ELSE Bind(org_error_make(m, a), LAMBDA err :
                  CallFn(err.m, a, next_func, instance_val, err.ret, NULL))

\* Variant: the upstream value is handed to the transform whatever it is.
map_iterator_next_all(m, a, it) ==
  LET source == m.heap[m.heap[it].state].list_val[1]
      transform == m.heap[m.heap[it].state].list_val[2]
  IN Bind(IterNext(m, a, source, "map"), LAMBDA v :
       IF v.ret = NULL THEN Ret(v.m, NULL)
       ELSE Bind(org_error_make(v.m, a), LAMBDA err :
              IF TypeOf(err.m, transform) = "ORG_FUNC_TYPE"
              THEN CallFn(err.m, a, transform, transform, err.ret, v.ret)
              ELSE Ret(err.m, v.ret)))

map_iterator_next(m, a, it) ==
  LET l == m.heap[m.heap[it].state].list_val
      source == l[1]
      transform == l[2]
  IN Bind(IterNext(m, a, source, "map"), LAMBDA v :
       IF v.ret = NULL THEN Ret(v.m, NULL)  \* End of Stream
       ELSE IF v.m.heap[v.ret].type = "ORG_STR_TYPE"
               /\ v.m.heap[v.ret].str_val = STR_Error
       THEN Ret(v.m, v.ret)
       ELSE Bind(org_error_make(v.m, a), LAMBDA err :
              IF TypeOf(err.m, transform) = "ORG_FUNC_TYPE"
              THEN CallFn(err.m, a, transform, transform, err.ret, v.ret)
              ELSE IF TypeOf(err.m, transform) = "ORG_RESOURCE_INSTANCE_TYPE"
                      /\ IsFunc(err.m, err.m.heap[err.m.heap[transform].def].step)
              THEN CallFn(err.m, a, err.m.heap[err.m.heap[transform].def].step,
                          transform, err.ret, v.ret)
              ELSE Ret(err.m, v.ret)))

scoped_iterator_next(m, a, it) ==
  LET sc == m.heap[it].state
      def == m.heap[sc].def
      setup == m.heap[def].setup
      teardown == m.heap[def].teardown
  IN \* 1. Lazy Setup
     Bind(IF m.heap[sc].context = NULL
          THEN Bind(org_error_make(m, a), LAMBDA err :
                 IF IsFunc(err.m, setup)
                 THEN Bind(CallFn(err.m, a, setup, setup, err.ret, NULL),
                           LAMBDA c : [c.m EXCEPT !.heap[sc].context = c.ret])
                 ELSE err.m)
          ELSE m,
          LAMBDA m1 :
     \* 2. Context Switch (Arena)
     LET context == m1.heap[sc].context
         ptr == IF TypeOf(m1, context) = "ORG_INT_TYPE"
                THEN atoll(m1.heap[context].str_val) ELSE 0
         target_arena == IF ptr # 0 THEN ptr ELSE a
     IN \* 3. Upstream Next
     Bind(IterNext(m1, target_arena, m1.heap[sc].upstream, "scoped"),
          LAMBDA up :
     \* an upstream that allocated on an arena already released wrote
     \* through a dangling pointer: undefined behaviour
     Bind(IF /\ ~m1.arenas[target_arena].data
             /\ Len(up.m.heap) > Len(m1.heap)
             /\ m1.ub = "crash"
          THEN Ret([up.m EXCEPT !.crashed = TRUE], NULL)
          ELSE up,
          LAMBDA v :
     \* 4. Teardown on End/Error
     IF (v.ret = NULL \/ v.m.heap[v.ret].type = "ORG_ERROR_TYPE")
        /\ IsFunc(v.m, teardown)
     THEN Bind(org_error_make(v.m, a), LAMBDA err :
          Bind(CallFn(err.m, a, teardown, teardown, err.m.heap[sc].context, NULL),
               LAMBDA t : Ret(t.m, v.ret)))
     ELSE Ret(v.m, v.ret))))

org_scoped_iterator_create(m, a, upstream_iter, resource_def) ==
  Bind(New(m, [type |-> "ORG_ITERATOR_TYPE",
               next |-> "scoped_iterator_next", state |-> NULL]), LAMBDA v :
  Bind(New(v.m, [type |-> "ORG_SCOPED_ITERATOR_DATA",
                 upstream |-> upstream_iter, def |-> resource_def,
                 context |-> NULL]), LAMBDA state :
  Ret([state.m EXCEPT !.heap[v.ret].state = state.ret], v.ret)))

(***************************************************************************)
(* Prefix operator: only "@" is modelled; every other operand or operator  *)
(* leaves the operand alone here.                                          *)
(***************************************************************************)
\* Variant: the new instance is not put on the arena's resource list.
org_op_prefix_unregistered(m, a, op, right) ==
  IF op = "@" /\ TypeOf(m, right) = "ORG_RESOURCE_TYPE"
  THEN Bind(New(m, [type |-> "ORG_RESOURCE_INSTANCE_TYPE", def |-> right,
                    state |-> NULL, next_resource |-> NULL]),
            LAMBDA instance :
              IF IsFunc(instance.m, m.heap[right].setup)
              THEN Bind(org_error_make(instance.m, a), LAMBDA err :
                   Bind(CallFn(err.m, a, m.heap[right].setup, right, err.ret, NULL),
                        LAMBDA c : Ret([c.m EXCEPT !.heap[instance.ret].state = c.ret],
                                       instance.ret)))
              ELSE instance)
  ELSE Ret(m, right)

org_op_prefix(m, a, op, right) ==
  IF op = "@" /\ right = NULL
  THEN \* right->type reads through a null pointer: undefined behaviour
       IF m.ub = "crash" THEN Ret([m EXCEPT !.crashed = TRUE], NULL)
       ELSE Ret(m, right)
  ELSE IF op = "@" /\ TypeOf(m, right) = "ORG_RESOURCE_TYPE"
  THEN Bind(New(m, [type |-> "ORG_RESOURCE_INSTANCE_TYPE", def |-> right,
                    state |-> NULL, next_resource |-> NULL]),
            LAMBDA instance :
       Bind(IF IsFunc(instance.m, m.heap[right].setup)
            THEN Bind(org_error_make(instance.m, a), LAMBDA err :
                 Bind(CallFn(err.m, a, m.heap[right].setup, right, err.ret, NULL),
                      LAMBDA c : [c.m EXCEPT !.heap[instance.ret].state = c.ret]))
            ELSE instance.m,
            LAMBDA m1 :
       Ret(arena_resource_register(m1, a, instance.ret), instance.ret)))
  ELSE Ret(m, right)

(***************************************************************************)
(* The machine before the program starts (arena_create) and after the      *)
(* "Program start" section of the generated main.                          *)
(***************************************************************************)
arena_create ==
  [data |-> TRUE, resources_head |-> NULL, context |-> NULL]

EmptyMachine ==
  [heap |-> <<>>, arenas |-> <<arena_create>>, fibers |-> <<>>,
   sched |-> [global_arena |-> NULL, ready_head |-> NULL, ready_tail |-> NULL,
              fiber_id_counter |-> 0],
   calls |-> <<>>, pulls |-> <<>>, enq |-> <<>>, res |-> <<>>,
   spawnedBy |-> <<>>, cur |-> 0, crashed |-> FALSE, ub |-> "end",
   current_fiber_arena |-> NULL, slots |-> <<>>]

ProgramStart ==
  Bind(org_string_from_c(EmptyMachine, 1, STR_Error), LAMBDA e :
  Bind(org_func_create(e.m, 1, "org_fn_0"), LAMBDA f0 :
  Bind(org_resource_create(f0.m, 1, NULL, f0.ret, NULL, NULL), LAMBDA so :
  Bind(org_func_create(so.m, 1, "org_fn_1"), LAMBDA f1 :
  Bind(org_func_create(f1.m, 1, "org_fn_2"), LAMBDA f2 :
  Bind(org_func_create(f2.m, 1, "org_fn_3"), LAMBDA f3 :
  Bind(org_resource_create(f3.m, 1, f2.ret, NULL, NULL, f3.ret), LAMBDA si :
  Bind(org_func_create(si.m, 1, "org_fn_7"), LAMBDA f7 :
  Bind(org_func_create(f7.m, 1, "org_fn_8"), LAMBDA f8 :
  Bind(org_func_create(f8.m, 1, "org_fn_9"), LAMBDA f9 :
  Bind(org_resource_create(f9.m, 1, f7.ret, NULL, f8.ret, f9.ret), LAMBDA tr :
  Bind(org_func_create(tr.m, 1, "org_fn_10"), LAMBDA f10 :
  Bind(org_int_from_str(f10.m, 1, <<"1">>), LAMBDA i1 :
  Bind(org_int_from_str(i1.m, 1, <<"2">>), LAMBDA i2 :
  Bind(org_error_make(i2.m, 1), LAMBDA er :
    [m |-> er.m, Error |-> e.ret, stdout |-> so.ret, print |-> f1.ret,
     stdin |-> si.ret, Tracked |-> tr.ret, fn_9 |-> f9.ret,
     fn_10 |-> f10.ret, fn_2 |-> f2.ret, one |-> i1.ret, two |-> i2.ret,
     err |-> er.ret])))))))))))))))

org_var_Error == ProgramStart.Error
org_var_stdout == ProgramStart.stdout
org_var_print == ProgramStart.print
org_var_stdin == ProgramStart.stdin
org_var_Tracked == ProgramStart.Tracked

(***************************************************************************)
(* Infix operator: the flow operator "->".  Any other operator is outside  *)
(* this model and returns its left operand like the unknown-operator       *)
(* fallback.                                                               *)
(***************************************************************************)
\* Variant: the pump branch does not return and falls into the default.
org_op_flow_fallthrough(m0, a, left, right) ==
  LET ctx == m0.arenas[a].context
  IN IF TypeOf(m0, left) = "ORG_LIST_TYPE"
        /\ TypeOf(m0, right) = "ORG_RESOURCE_INSTANCE_TYPE" /\ ctx # NULL
     THEN Bind(org_list_iterator(m0, a, left), LAMBDA iter :
          Bind(org_list_make(iter.m, a, <<iter.ret, right>>), LAMBDA state :
          Bind(org_sched_spawn(state.m, "org_pump_task", state.ret), LAMBDA sp :
          Bind(org_list_make(sp.m, a, <<left, right>>), LAMBDA st2 :
            Ret(org_sched_spawn(st2.m, "org_sink_task", st2.ret).m, left)))))
     ELSE Ret(m0, left)

\* the body of  if (strcmp(op, "->") == 0) { ... }
org_op_flow(m0, a, left, right) ==
  LET ctx == m0.arenas[a].context
      Default(md) ==
        IF ctx # NULL
        THEN Bind(org_list_make(md, a, <<left, right>>), LAMBDA state :
               Ret(org_sched_spawn(state.m, "org_sink_task", state.ret).m, left))
        ELSE Ret(md, left)
  IN IF TypeOf(m0, right) = "ORG_RESOURCE_TYPE"
     THEN \* 0. Middleware / Scoped Iterator
          Bind(IF TypeOf(m0, left) = "ORG_ITERATOR_TYPE" THEN Ret(m0, left)
               ELSE org_list_iterator(m0, a, left),
               LAMBDA iter :
                 org_scoped_iterator_create(iter.m, a, iter.ret, right))
     ELSE IF TypeOf(m0, left) \in {"ORG_ITERATOR_TYPE", "ORG_LIST_TYPE",
                                  "ORG_PAIR_TYPE"}
             \/ (TypeOf(m0, left) = "ORG_RESOURCE_INSTANCE_TYPE"
                 /\ m0.heap[m0.heap[left].def].next # NULL)
     THEN Bind(IF TypeOf(m0, left) = "ORG_ITERATOR_TYPE" THEN Ret(m0, left)
               ELSE IF TypeOf(m0, left) \in {"ORG_LIST_TYPE", "ORG_PAIR_TYPE"}
               THEN org_list_iterator(m0, a, left)
               ELSE org_iterator_create(m0, a, "resource_iterator_next", left),
               LAMBDA iter :
          IF TypeOf(m0, right) = "ORG_FUNC_TYPE"
          THEN \* Lazy Map
               Bind(org_list_make(iter.m, a, <<iter.ret, right>>), LAMBDA state :
                 org_iterator_create(state.m, a, "map_iterator_next", state.ret))
          ELSE IF TypeOf(m0, right) = "ORG_RESOURCE_INSTANCE_TYPE"
          THEN \* Spawn Pump Task
               IF ctx # NULL
               THEN Bind(org_list_make(iter.m, a, <<iter.ret, right>>),
                         LAMBDA state :
                           Ret(org_sched_spawn(state.m, "org_pump_task",
                                               state.ret).m, NULL))
               ELSE Ret(iter.m, NULL)
          ELSE Default(iter.m))
     ELSE Default(m0)

org_op_infix(m, a, op, left0, right0) ==
  Bind(IF left0 = NULL THEN org_error_make(m, a) ELSE Ret(m, left0), LAMBDA l :
  Bind(IF right0 = NULL THEN org_error_make(l.m, a) ELSE Ret(l.m, right0),
       LAMBDA r :
         IF op = "->" THEN org_op_flow(r.m, a, l.ret, r.ret)
         ELSE Ret(r.m, l.ret)))

(***************************************************************************)
(* The functions of the generated program (src/test/feature/arena_test.c). *)
(* write(2) is taken to write the whole buffer.                            *)
(***************************************************************************)
syscall_write(m, a, buf) ==
  org_int_from_str(m, a, sprintf_lld(Len(org_value_to_cstring(m, buf))))

\* ("arena_create"): the pointer is printed with %lld; an Arena* is its
\* position in arenas
syscall_arena_create(m, a) ==
  org_int_from_str([m EXCEPT !.arenas = Append(@, arena_create)], a,
                   sprintf_lld(Len(m.arenas) + 1))

org_fn_0(m, a, func, left, right) == syscall_write(m, a, right)

org_fn_1(m, a, func, left, right) ==
  Bind(org_op_prefix(m, a, "@", org_var_stdout), LAMBDA inst :
    org_op_infix(inst.m, a, "->", right, inst.ret))

org_fn_2(m, a, func, left, right) == Ret(m, NULL)

\* org_table_get finds no pair keyed by the INT that org_bool returns and
\* no non-pair item to index, so the lookup yields NULL for every input.
org_fn_3(m, a, func, left, right) == Ret(m, NULL)

org_fn_4(m, a, func, left, right) ==
  Bind(syscall_arena_create(m, a), LAMBDA ptr :
  Bind(syscall_write(ptr.m, a, NULL), LAMBDA w1 :
  Bind(syscall_write(w1.m, a, ptr.ret), LAMBDA w2 :
  Bind(syscall_write(w2.m, a, NULL), LAMBDA w3 :
    Ret(w3.m, ptr.ret)))))

org_fn_6(m, a, func, left, right) == Ret(m, right)

org_fn_7(m, a, func, left, right) == org_string_from_c(m, a, STR_TrackedState)

org_fn_8(m, a, func, left, right) == syscall_write(m, a, NULL)

org_fn_9(m, a, func, left, right) == Ret(m, right)

org_fn_10(m, a, func, left, right) ==
  Bind(org_op_prefix(m, a, "@", org_var_Tracked), LAMBDA t : Ret(t.m, right))

RECURSIVE syscall_arena_release(_, _, _)
RECURSIVE org_fn_5(_, _, _, _, _)

CallFn(m, a, fn, this, left, right) ==
  LET name == m.heap[fn].func
      k == Len(m.calls) + 1
  IN Bind([m EXCEPT !.calls = Append(@, [fn |-> fn, this |-> this,
                                          left |-> left, right |-> right,
                                          fiber |-> m.cur, arena |-> a,
                                          live |-> m.arenas[a].data,
                                          ret |-> NULL])],
          LAMBDA m1 :
     Bind(CASE name = "org_fn_0" -> org_fn_0(m1, a, this, left, right)
            [] name = "org_fn_1" -> org_fn_1(m1, a, this, left, right)
            [] name = "org_fn_2" -> org_fn_2(m1, a, this, left, right)
            [] name = "org_fn_3" -> org_fn_3(m1, a, this, left, right)
            [] name = "org_fn_4" -> org_fn_4(m1, a, this, left, right)
            [] name = "org_fn_5" -> org_fn_5(m1, a, this, left, right)
            [] name = "org_fn_6" -> org_fn_6(m1, a, this, left, right)
            [] name = "org_fn_7" -> org_fn_7(m1, a, this, left, right)
            [] name = "org_fn_8" -> org_fn_8(m1, a, this, left, right)
            [] name = "org_fn_9" -> org_fn_9(m1, a, this, left, right)
            [] name = "org_fn_10" -> org_fn_10(m1, a, this, left, right),
          LAMBDA r : Ret([r.m EXCEPT !.calls[k].ret = r.ret], r.ret)))

(***************************************************************************)
(* arena_free: tear down the registered Resource Instances, then release   *)
(* the memory (data = FALSE).                                              *)
(***************************************************************************)
RECURSIVE arena_free_walk(_, _, _)
arena_free_walk(m, a, curr) ==
  IF curr = NULL THEN m
  ELSE LET teardown == m.heap[m.heap[curr].def].teardown
       IN Bind(IF IsFunc(m, teardown)
               THEN Bind(New(m, [type |-> "ORG_ERROR_TYPE"]), LAMBDA err :
                      CallFn(err.m, a, teardown, teardown,
                             err.m.heap[curr].state, NULL).m)
               ELSE m,
               LAMBDA m1 : arena_free_walk(m1, a, m1.heap[curr].next_resource))

\* Variant: the walk starts behind the head of the resource list.
arena_free_skip(m, a) ==
  IF a = NULL THEN m
  ELSE LET head == m.arenas[a].resources_head
       IN Bind(arena_free_walk(m, a, IF head = NULL THEN NULL
                                     ELSE m.heap[head].next_resource),
               LAMBDA w : [w EXCEPT !.arenas[a].data = FALSE])

arena_free(m, a) ==
  IF a = NULL THEN m
  ELSE Bind(arena_free_walk(m, a, m.arenas[a].resources_head),
            LAMBDA w : [w EXCEPT !.arenas[a].data = FALSE])

\* ("arena_release", ptr): arena_free of the arena the integer names
syscall_arena_release(m, a, arg) ==
  LET target == org_value_to_long(m, arg)
  IN IF target = NULL THEN Ret(m, NULL)
     ELSE IF ~m.arenas[target].data
     THEN \* the arena was freed already: undefined behaviour
          IF m.ub = "crash" THEN Ret([m EXCEPT !.crashed = TRUE], NULL)
          ELSE Ret(arena_free(m, target), NULL)
     ELSE Ret(arena_free(m, target), NULL)

org_fn_5(m, a, func, left, right) ==
  Bind(syscall_write(m, a, NULL), LAMBDA w1 :
  Bind(syscall_write(w1.m, a, left), LAMBDA w2 :
  Bind(syscall_write(w2.m, a, NULL), LAMBDA w3 :
    syscall_arena_release(w3.m, a, left))))

IterNext(m, a, it, by) ==
  LET name == m.heap[it].next
  IN Bind(CASE name = "list_iterator_next" -> list_iterator_next(m, a, it)
            [] name = "resource_iterator_next" -> resource_iterator_next(m, a, it)
            [] name = "map_iterator_next" -> map_iterator_next(m, a, it)
            [] name = "scoped_iterator_next" -> scoped_iterator_next(m, a, it),
          LAMBDA r :
            Ret([r.m EXCEPT !.pulls = Append(@, [it |-> it, by |-> by,
                                                  fiber |-> m.cur,
                                                  ret |-> r.ret])],
                r.ret))

(***************************************************************************)
(* Scheduler tasks.                                                        *)
(***************************************************************************)
org_sink_task(m, fiber) ==
  LET state == m.fibers[fiber].state
  IN IF TypeOf(m, state) # "ORG_LIST_TYPE" \/ Len(m.heap[state].list_val) < 2
     THEN m
     ELSE LET item == m.heap[state].list_val[1]
              sink == m.heap[state].list_val[2]
              a == m.fibers[fiber].arena
          IN IF TypeOf(m, sink) = "ORG_FUNC_TYPE"
             THEN Bind(org_error_make(m, a), LAMBDA err :
                    CallFn(err.m, a, sink, sink, err.ret, item).m)
             ELSE IF TypeOf(m, sink) = "ORG_RESOURCE_INSTANCE_TYPE"
                     /\ IsFunc(m, m.heap[m.heap[sink].def].step)
             THEN Bind(org_error_make(m, a), LAMBDA err :
                    CallFn(err.m, a, m.heap[m.heap[sink].def].step, sink,
                           err.ret, item).m)
             ELSE m

\* Variant: the pump puts itself back at the head of the ready queue.
org_pump_requeue_front(s, fiber) ==
  IF s.sched.ready_tail # NULL
  THEN [s EXCEPT !.fibers[fiber].next = s.sched.ready_head,
                 !.sched.ready_head = fiber,
                 !.enq = Append(@, fiber)]
  ELSE [s EXCEPT !.sched.ready_head = fiber, !.sched.ready_tail = fiber,
                 !.fibers[fiber].next = NULL,
                 !.enq = Append(@, fiber)]

\* "Requeue Self", the last block of org_pump_task
org_pump_requeue(s, fiber) ==
  IF s.sched.ready_tail # NULL
  THEN [s EXCEPT !.fibers[s.sched.ready_tail].next = fiber,
                 !.sched.ready_tail = fiber,
                 !.fibers[fiber].next = NULL,
                 !.enq = Append(@, fiber)]
  ELSE [s EXCEPT !.sched.ready_head = fiber,
                 !.sched.ready_tail = fiber,
                 !.fibers[fiber].next = NULL,
                 !.enq = Append(@, fiber)]

org_pump_task(m, fiber) ==
  LET state == m.fibers[fiber].state
  IN IF TypeOf(m, state) # "ORG_LIST_TYPE" \/ Len(m.heap[state].list_val) < 2
     THEN m
     ELSE LET iter == m.heap[state].list_val[1]
              sink == m.heap[state].list_val[2]
              a == m.fibers[fiber].arena
          IN IF TypeOf(m, iter) # "ORG_ITERATOR_TYPE" THEN m
             ELSE Bind(IterNext(m, a, iter, "pump"), LAMBDA v :
                    IF v.ret = NULL THEN v.m  \* Null means end
                    ELSE IF v.m.heap[v.ret].type = "ORG_STR_TYPE"
                            /\ v.m.heap[v.ret].str_val = STR_Error
                    THEN v.m
                    ELSE \* Spawn Sink Task
                         Bind(org_list_make(v.m, a, <<v.ret, sink>>),
                              LAMBDA task_state :
                         Bind(org_sched_spawn(task_state.m, "org_sink_task",
                                              task_state.ret),
                              LAMBDA sp : org_pump_requeue(sp.m, fiber))))

(***************************************************************************)
(* One iteration of the org_sched_run loop: pop the head, resume it.       *)
(***************************************************************************)
\* Variant: ready_tail is left alone when the queue becomes empty.
org_sched_run_step_stale(m) ==
  LET f == m.sched.ready_head
  IN Bind([m EXCEPT !.sched.ready_head = m.fibers[f].next,
                    !.res = Append(@, f),
                    !.slots = Append(@, org_gmp_get_arena(m)),
                    !.cur = f],
          LAMBDA p :
     Bind(CASE m.fibers[f].resume = "org_pump_task" -> org_pump_task(p, f)
            [] m.fibers[f].resume = "org_sink_task" -> org_sink_task(p, f)
            [] OTHER -> p,
          LAMBDA r : [r EXCEPT !.cur = 0]))

org_sched_run_step(m) ==
  LET f == m.sched.ready_head
  IN Bind([m EXCEPT !.sched.ready_head = m.fibers[f].next,
                    !.sched.ready_tail =
                       IF m.fibers[f].next = NULL THEN NULL ELSE @,
                    !.res = Append(@, f),
                    !.slots = Append(@, org_gmp_get_arena(m)),
                    !.cur = f],
          LAMBDA p :
     Bind(CASE m.fibers[f].resume = "org_pump_task" -> org_pump_task(p, f)
            [] m.fibers[f].resume = "org_sink_task" -> org_sink_task(p, f)
            [] OTHER -> p,
          LAMBDA r : [r EXCEPT !.cur = 0]))

(***************************************************************************)
(* The state machine.                                                      *)
(***************************************************************************)
\* A program of Part I does not use the page arena of Part II.
ArenaIdle ==
  /\ page_arena = [current |-> NULL, default_page_size |-> 0]
  /\ pages = <<>>
  /\ cp = [page |-> NULL, used |-> 0]
  /\ saved = [pages |-> <<>>, cp |-> [page |-> NULL, used |-> 0],
              first |-> [size |-> 0, align |-> 0, ret |-> NULL]]

SmallIdle ==
  small = [n |-> 0, v |-> 0, back |-> 0, fits |-> FALSE, done |-> {}]

NumIdle == num = [a |-> NULL, b |-> NULL, op |-> "idle", r |-> NULL]

TabIdle ==
  tab = [t |-> NULL, shadow |-> NULL, pushed |-> NULL, anyset |-> FALSE,
         call |-> NULL]

GmpIdle == gmp = [mem |-> NULL, owned |-> NULL, call |-> NULL]

CoreIdle == ArenaIdle /\ SmallIdle /\ NumIdle /\ TabIdle /\ GmpIdle

M == [heap |-> heap, arenas |-> arenas, fibers |-> fibers, sched |-> sched,
      calls |-> calls, pulls |-> pulls, enq |-> enq, res |-> res,
      spawnedBy |-> spawnedBy, cur |-> cur, crashed |-> crashed, ub |-> "end",
      current_fiber_arena |-> current_fiber_arena, slots |-> slots]

Commit(m) ==
  IF m.crashed
  THEN /\ crashed' = TRUE
       /\ UNCHANGED <<heap, arenas, fibers, sched, calls, pulls, enq, res,
                      spawnedBy, cur, current_fiber_arena, slots, corevars>>
  ELSE /\ heap' = m.heap
       /\ arenas' = m.arenas
       /\ fibers' = m.fibers
       /\ sched' = m.sched
       /\ calls' = m.calls
       /\ pulls' = m.pulls
       /\ enq' = m.enq
       /\ res' = m.res
       /\ spawnedBy' = m.spawnedBy
       /\ cur' = m.cur
       /\ current_fiber_arena' = m.current_fiber_arena
       /\ slots' = m.slots
       /\ crashed' = FALSE
       /\ UNCHANGED corevars

RECURSIVE SeqsUpTo(_, _)
SeqsUpTo(S, n) ==
  IF n = 0 THEN {<<>>}
  ELSE {<<>>} \cup {<<x>> \o t : x \in S, t \in SeqsUpTo(S, n - 1)}

\* What the program builds after "Program start": the source list, a sink
\* @stdout and an instance @Tracked (a Resource Instance with next).
Boot(items) ==
  Bind(org_list_make(ProgramStart.m, 1, items), LAMBDA list :
  Bind(org_op_prefix(list.m, 1, "@", org_var_stdout), LAMBDA sink :
  Bind(org_op_prefix(sink.m, 1, "@", org_var_Tracked), LAMBDA inst :
    [m |-> inst.m, sink |-> sink.ret, inst |-> inst.ret, list |-> list.ret])))

org_var_sink == Boot(<<>>).sink
org_var_inst == Boot(<<>>).inst

\* The middleware Arena of the program (setup org_fn_4, teardown org_fn_5,
\* next org_fn_6), created in machine m.
ArenaStart(m) ==
  Bind(org_func_create(m, 1, "org_fn_4"), LAMBDA f4 :
  Bind(org_func_create(f4.m, 1, "org_fn_5"), LAMBDA f5 :
  Bind(org_func_create(f5.m, 1, "org_fn_6"), LAMBDA f6 :
  Bind(org_resource_create(f6.m, 1, f4.ret, NULL, f5.ret, f6.ret), LAMBDA ar :
    [m |-> ar.m, Arena |-> ar.ret, fn_4 |-> f4.ret, fn_5 |-> f5.ret]))))

org_var_Arena == ArenaStart(Boot(<<>>).m).Arena

Elems == {ProgramStart.one, org_var_Error, ProgramStart.err, NULL}

Op(op, a, b, ret) == [op |-> op, a |-> a, b |-> b, ret |-> ret]

Start(m, list) ==
  /\ heap = m.heap
  /\ arenas = m.arenas
  /\ fibers = m.fibers
  /\ sched = m.sched
  /\ calls = m.calls
  /\ pulls = m.pulls
  /\ enq = m.enq
  /\ res = m.res
  /\ spawnedBy = m.spawnedBy
  /\ cur = 0
  /\ current_fiber_arena = m.current_fiber_arena
  /\ slots = m.slots
  /\ CoreIdle
  /\ crashed = FALSE
  /\ running = FALSE
  /\ lastOp = Op("boot", 0, 0, 0)
  /\ nops = 0
  /\ src = list
  /\ held = {}

Init ==
  \E items \in SeqsUpTo(Elems, MaxLen) :
    \E b \in {Boot(items)} : Start(b.m, b.list)

\* org_sched_init(&ctx, arena)
SchedInit ==
  /\ ~crashed /\ ~running
  /\ arenas[1].context = NULL
  /\ \E n \in {org_sched_init(M, 1)} : Commit(n)
  /\ lastOp' = Op("init", 0, 0, 0)
  /\ UNCHANGED <<running, nops, src, held>>

\* org_op_infix(arena, "->", left, right) called by the program
Compose(left, right, bound) ==
  /\ ~crashed /\ ~running
  /\ nops < bound
  /\ \E r \in {org_op_infix(M, 1, "->", left, right)} :
        /\ Commit(r.m)
        /\ lastOp' = Op("flow", left, right, r.ret)
        /\ held' = IF TypeOf(r.m, r.ret) = "ORG_ITERATOR_TYPE"
                   THEN held \cup {r.ret} ELSE held
  /\ nops' = nops + 1
  /\ UNCHANGED <<running, src>>

\* it->iterator_val->next(arena, it->iterator_val) called by the program
Pull(it, bound) ==
  /\ ~crashed /\ ~running
  /\ nops < bound
  /\ \E ub \in {"crash", "end", "item"} :
       \E r \in {IterNext([M EXCEPT !.ub = ub], 1, it, "program")} :
          /\ Commit(r.m)
          /\ lastOp' = Op("pull", it, 0, r.ret)
  /\ nops' = nops + 1
  /\ UNCHANGED <<running, src, held>>

\* org_sched_run(&ctx): entry, one loop iteration, return
RunStart ==
  /\ ~crashed /\ ~running
  /\ arenas[1].context # NULL
  /\ running' = TRUE
  /\ lastOp' = Op("run", 0, 0, 0)
  /\ UNCHANGED <<heap, arenas, fibers, sched, crashed, calls, pulls, enq, res,
                 spawnedBy, cur, nops, src, held, current_fiber_arena, slots,
                 corevars>>

RunStep ==
  /\ ~crashed /\ running
  /\ sched.ready_head # NULL
  /\ \E ub \in {"crash", "end", "item"} :
       \E n \in {org_sched_run_step([M EXCEPT !.ub = ub])} : Commit(n)
  /\ lastOp' = Op("step", sched.ready_head, 0, 0)
  /\ UNCHANGED <<running, nops, src, held>>

RunReturn ==
  /\ ~crashed /\ running
  /\ sched.ready_head = NULL
  /\ running' = FALSE
  /\ lastOp' = Op("return", 0, 0, 0)
  /\ UNCHANGED <<heap, arenas, fibers, sched, crashed, calls, pulls, enq, res,
                 spawnedBy, cur, nops, src, held, current_fiber_arena, slots,
                 corevars>>

\* Scheduler driver: the program composes pipelines into sinks and runs.
Flows == {<<src, org_var_sink>>, <<ProgramStart.one, org_var_sink>>,
          <<ProgramStart.one, org_var_print>>}

ComposeSink == \E f \in Flows : Compose(f[1], f[2], MaxOps)

Next == SchedInit \/ ComposeSink \/ RunStart \/ RunStep \/ RunReturn

Spec == Init /\ [][Next]_vars

\* The same driver for the liveness check, with its own bound on the number
\* of compositions.  org_sched_run is a plain while loop on one thread: once
\* entered, its next iteration, or its return when the queue is empty, is
\* always taken.
ComposeFair == \E f \in Flows : Compose(f[1], f[2], MaxFairOps)

FairNext == SchedInit \/ ComposeFair \/ RunStart \/ RunStep \/ RunReturn

FairSpec ==
  Init /\ [][FairNext]_vars /\ WF_vars(RunStep) /\ WF_vars(RunReturn)

\* Composition driver: the program has called org_sched_init, builds lazy
\* pipelines and pulls them.
FlowElems == {ProgramStart.one, org_var_Error, ProgramStart.err}

FlowInit ==
  \E items \in SeqsUpTo(FlowElems, MaxLen) :
    \E b \in {Boot(items)} :
      \E m \in {org_sched_init(b.m, 1)} : Start(m, b.list)

FlowLefts == {src, org_var_inst} \cup held
FlowRights == {ProgramStart.fn_9, org_var_Tracked, org_var_stdin, org_var_sink}

ComposeFlow == \E l \in FlowLefts, r \in FlowRights : Compose(l, r, MaxFlowOps)

PullHeld == \E it \in held : Pull(it, MaxFlowOps)

FlowNext == ComposeFlow \/ PullHeld

FlowSpec == FlowInit /\ [][FlowNext]_vars

\* Middleware driver: the program has called org_sched_init, wraps the
\* source list in a Scoped Iterator of Tracked, pipes Scoped Iterators into
\* the sink, pulls them itself and runs the scheduler.
ScopeFlows == {<<src, org_var_Tracked>>} \cup {<<h, org_var_sink>> : h \in held}

ComposeScope == \E f \in ScopeFlows : Compose(f[1], f[2], MaxScopeOps)

PullScoped == \E it \in held : Pull(it, MaxScopeOps)

ScopeNext == ComposeScope \/ PullScoped \/ RunStart \/ RunStep \/ RunReturn

ScopeSpec == FlowInit /\ [][ScopeNext]_vars

\* Scoped-arena driver: the program has called org_sched_init, maps the
\* source list with org_fn_10 (which instantiates Tracked on the arena it is
\* given), wraps pipelines in the middleware Arena, pipes them into the sink,
\* pulls them itself and runs the scheduler.
MidInit ==
  \E items \in SeqsUpTo(FlowElems, MaxLen) :
    \E b \in {Boot(items)} :
      \E m \in {org_sched_init(ArenaStart(b.m).m, 1)} : Start(m, b.list)

MidFlows ==
  {<<src, ProgramStart.fn_10>>}
    \cup {<<h, r>> : h \in held, r \in {org_var_Arena, org_var_sink}}

ComposeMid == \E f \in MidFlows : Compose(f[1], f[2], MaxMidOps)

PullMid == \E it \in held : Pull(it, MaxMidOps)

MidNext == ComposeMid \/ PullMid \/ RunStart \/ RunStep \/ RunReturn

MidSpec == MidInit /\ [][MidNext]_vars

\* Big-number driver: the scheduler driver plus a program that may call
\* org_gmp_set_arena itself (as the runtime tests do before using GMP).
\* org_gmp_set_arena(arena) called by the program; arena may be NULL
GmpSetArena(a) ==
  /\ ~crashed /\ ~running
  /\ current_fiber_arena # a
  /\ \E n \in {org_gmp_set_arena(M, a)} : Commit(n)
  /\ lastOp' = Op("gmpset", a, 0, 0)
  /\ UNCHANGED <<running, nops, src, held>>

GmpSetAny == \E a \in 0..Len(arenas) : GmpSetArena(a)

ComposeGmp == \E f \in Flows : Compose(f[1], f[2], MaxGmpOps)

GmpNext ==
  SchedInit \/ GmpSetAny \/ ComposeGmp \/ RunStart \/ RunStep \/ RunReturn

GmpSpec == Init /\ [][GmpNext]_vars

\* Resource driver: the program has a second arena, instantiates with `@` on
\* either arena and frees arenas.  Every value of the program lives in the
\* first arena, which is therefore freed last, as main does.
ResInit ==
  \E b \in {Boot(<<>>)} :
    Start([b.m EXCEPT !.arenas = Append(@, arena_create)], b.list)

Operands == {org_var_Tracked, org_var_stdout, org_var_stdin, org_var_inst,
             ProgramStart.one, NULL}

\* org_op_prefix(a, "@", right) called by the program
Instantiate(a, right) ==
  /\ ~crashed
  /\ arenas[1].data /\ arenas[a].data
  /\ nops < MaxResOps
  /\ \E ub \in {"crash", "end"} :
       \E r \in {org_op_prefix([M EXCEPT !.ub = ub], a, "@", right)} :
          /\ Commit(r.m)
          /\ lastOp' = Op("at", a, right, r.ret)
  /\ nops' = nops + 1
  /\ UNCHANGED <<running, src, held>>

\* arena_free(a) called by the program
ArenaFree(a) ==
  /\ ~crashed
  /\ arenas[1].data /\ arenas[a].data
  /\ \E n \in {arena_free(M, a)} : Commit(n)
  /\ lastOp' = Op("free", a, 0, 0)
  /\ UNCHANGED <<running, nops, src, held>>

InstantiateAny == \E a \in 1..Len(arenas), right \in Operands : Instantiate(a, right)

ArenaFreeAny == \E a \in 1..Len(arenas) : ArenaFree(a)

ResNext == InstantiateAny \/ ArenaFreeAny

ResSpec == ResInit /\ [][ResNext]_vars

(***************************************************************************)
(* Part II.  The chained-page arena (src/pkg/runtime/core/arena.c).        *)
(*                                                                         *)
(*   - an ArenaPage* is the address malloc returned for the page; pages    *)
(*     maps every address malloc can return to the page stored there;      *)
(*   - page->data is the address right after the page header;              *)
(*   - blocks is a history field of a page: the blocks handed out from it  *)
(*     that have not been reclaimed;                                       *)
(*   - malloc returns NULL or the start of any region of the address space *)
(*     that holds no live page; the Arena handle itself is not an address; *)
(*   - size_t arithmetic does not wrap at the sizes explored.              *)
(***************************************************************************)
\* sizeof(ArenaPage) on LP64: prev, capacity, used
SizeofArenaPage == 24

\* malloc hands out the starts of disjoint regions, each aligned as malloc
\* aligns (a multiple of 16) and larger than any page of the exploration
RegionSize == 1024

NRegions == 3

PageAddrs == {r * RegionSize : r \in 1..NRegions}

FreedPage ==
  [live |-> FALSE, prev |-> NULL, capacity |-> 0, used |-> 0, blocks |-> <<>>]

malloc(k) == {NULL} \cup {q \in PageAddrs : ~k.pages[q].live}

DataOf(page) == page + SizeofArenaPage

\* x & ~(align - 1), align a power of two
MaskDown(x, align) == x - (x % align)

align_up(n, align) == MaskDown(n + align - 1, align)

\* p is what malloc returned
page_new(k, capacity, p) ==
  IF p = NULL THEN Ret(k, NULL)
  ELSE Ret([k EXCEPT !.pages[p] = [live |-> TRUE, prev |-> NULL,
                                   capacity |-> capacity, used |-> 0,
                                   blocks |-> <<>>]], p)

arena_new(page_size, p) ==
  Bind(IF page_size < 64 THEN 64 ELSE page_size, LAMBDA dps :
  Bind(page_new([arena |-> [current |-> NULL, default_page_size |-> dps],
                 pages |-> [q \in PageAddrs |-> FreedPage]], dps, p),
       LAMBDA n :
         IF n.ret = NULL THEN Ret(n.m, NULL)
         ELSE Ret([n.m EXCEPT !.arena.current = n.ret], n.ret)))

\* p is what malloc returns if the slow path calls it
arena_alloc(k, size, align, p) ==
  Bind(k.arena.current, LAMBDA page :
  Bind(DataOf(page) + k.pages[page].used, LAMBDA base :
  Bind(MaskDown(base + align - 1, align), LAMBDA aligned :
  Bind(aligned - DataOf(page), LAMBDA padding :
    IF padding + size <= k.pages[page].capacity
    THEN Ret([k EXCEPT !.pages[page].used = padding + size,
                       !.pages[page].blocks =
                          Append(@, [p |-> aligned, size |-> size])],
             aligned)
    ELSE
      Bind(page_new(k, IF size > k.arena.default_page_size \div 2
                       THEN align_up(size, align)
                       ELSE k.arena.default_page_size, p), LAMBDA n :
        IF n.ret = NULL THEN Ret(n.m, NULL)
        ELSE
          Bind(MaskDown(DataOf(n.ret) + align - 1, align), LAMBDA new_aligned :
            Ret([n.m EXCEPT !.pages[n.ret].prev = k.arena.current,
                            !.arena.current = n.ret,
                            !.pages[n.ret].used =
                               (new_aligned - DataOf(n.ret)) + size,
                            !.pages[n.ret].blocks =
                               <<[p |-> new_aligned, size |-> size]>>],
                new_aligned)))))))

arena_save(k) ==
  [page |-> k.arena.current, used |-> k.pages[k.arena.current].used]

\* Variant: the checkpoint page's used offset is not rewound.
RECURSIVE arena_restore_norewind(_, _)
arena_restore_norewind(k, checkpoint) ==
  IF k.arena.current # checkpoint.page
  THEN arena_restore_norewind(
         [k EXCEPT !.pages[k.arena.current] = FreedPage,
                   !.arena.current = k.pages[k.arena.current].prev],
         checkpoint)
  ELSE k

\* The blocks of the checkpoint page above the restored offset are reclaimed.
RECURSIVE arena_restore(_, _)
arena_restore(k, checkpoint) ==
  IF k.arena.current # checkpoint.page
  THEN arena_restore([k EXCEPT !.pages[k.arena.current] = FreedPage,
                               !.arena.current = k.pages[k.arena.current].prev],
                     checkpoint)
  ELSE [k EXCEPT !.pages[checkpoint.page].used = checkpoint.used,
                 !.pages[checkpoint.page].blocks =
                    SelectSeq(@, LAMBDA b :
                      (b.p + b.size) - DataOf(checkpoint.page)
                         <= checkpoint.used)]

\* Arena driver: a program creates an arena, allocates, and takes and
\* restores one checkpoint at a time.
PageSizes == {32, 64}

Sizes == {8, 40, 128}

Aligns == {8, 16}

K == [arena |-> page_arena, pages |-> pages]

NoCheckpoint == [page |-> NULL, used |-> 0]

NoAlloc == [size |-> 0, align |-> 0, ret |-> NULL]

HdrIdle ==
  /\ heap = EmptyMachine.heap
  /\ arenas = EmptyMachine.arenas
  /\ fibers = EmptyMachine.fibers
  /\ sched = EmptyMachine.sched
  /\ calls = <<>> /\ pulls = <<>> /\ enq = <<>> /\ res = <<>>
  /\ spawnedBy = <<>> /\ cur = 0 /\ slots = <<>>
  /\ current_fiber_arena = NULL
  /\ running = FALSE /\ crashed = FALSE
  /\ src = NULL /\ held = {}

ArenaInit ==
  /\ HdrIdle
  /\ \E page_size \in PageSizes, p \in PageAddrs :
       \E n \in {arena_new(page_size, p)} :
          /\ page_arena = n.m.arena
          /\ pages = n.m.pages
          /\ lastOp = Op("new", page_size, 0, n.ret)
  /\ cp = NoCheckpoint
  /\ saved = [pages |-> pages, cp |-> NoCheckpoint, first |-> NoAlloc]
  /\ SmallIdle
  /\ NumIdle
  /\ TabIdle
  /\ GmpIdle
  /\ nops = 0

\* arena_alloc(a, size, align)
Alloc(size, align) ==
  /\ nops < MaxAllocs
  /\ \E p \in malloc(K) :
       \E r \in {arena_alloc(K, size, align, p)} :
          /\ page_arena' = r.m.arena
          /\ pages' = r.m.pages
          /\ lastOp' = Op("alloc", size, align, r.ret)
          /\ saved' = IF cp # NoCheckpoint /\ saved.first = NoAlloc
                      THEN [saved EXCEPT !.first = [size |-> size,
                                                    align |-> align,
                                                    ret |-> r.ret]]
                      ELSE saved
  /\ nops' = nops + 1
  /\ UNCHANGED <<hdrvars, cp, small, num, tab, gmp>>

\* cp = arena_save(a)
Save ==
  /\ cp = NoCheckpoint
  /\ cp' = arena_save(K)
  /\ saved' = [pages |-> pages, cp |-> cp', first |-> NoAlloc]
  /\ lastOp' = Op("save", 0, 0, 0)
  /\ UNCHANGED <<hdrvars, page_arena, pages, nops, small, num, tab, gmp>>

\* arena_restore(a, cp)
Restore ==
  /\ cp # NoCheckpoint
  /\ \E n \in {arena_restore(K, cp)} :
       /\ page_arena' = n.arena
       /\ pages' = n.pages
  /\ cp' = NoCheckpoint
  /\ lastOp' = Op("restore", 0, 0, 0)
  /\ UNCHANGED <<hdrvars, saved, nops, small, num, tab, gmp>>

AllocAny == \E size \in Sizes, align \in Aligns : Alloc(size, align)

ArenaNext == AllocAny \/ Save \/ Restore

ArenaSpec == ArenaInit /\ [][ArenaNext]_vars

(***************************************************************************)
(* Part II.  GMP's memory functions (src/pkg/runtime/gmp/gmp_glue.c).      *)
(*                                                                         *)
(*   - current_fiber_arena is the arena of the arena driver, as after      *)
(*     org_gmp_set_arena(arena);                                           *)
(*   - memory is kept in words of GmpAlign bytes: mem maps the address of  *)
(*     every word that was written to its value, and a word never written  *)
(*     reads as Indeterminate;                                             *)
(*   - GMP asks for whole limbs, so every size is a multiple of GmpAlign.  *)
(***************************************************************************)
GmpAlign == 8

Indeterminate == 0 - 1

WordsOf(ptr, size) == {ptr + GmpAlign * i : i \in 0..((size \div GmpAlign) - 1)}

ReadWord(mem, a) == IF a \in DOMAIN mem THEN mem[a] ELSE Indeterminate

\* the words of the block of size bytes at ptr, in order
BlockWords(mem, ptr, size) ==
  [i \in 1..(size \div GmpAlign) |-> ReadWord(mem, ptr + GmpAlign * (i - 1))]

\* the blocks do not overlap
memcpy(mem, dest, from, n) ==
  [a \in DOMAIN mem \cup WordsOf(dest, n) |->
     IF a \in WordsOf(dest, n) THEN ReadWord(mem, from + (a - dest))
     ELSE mem[a]]

org_gmp_alloc(k, size, p) == arena_alloc(k, size, GmpAlign, p)

\* the block at ptr grows to new_size in the history of its page
Extended(blocks, ptr, new_size) ==
  [i \in DOMAIN blocks |->
     IF blocks[i].p = ptr THEN [blocks[i] EXCEPT !.size = new_size]
     ELSE blocks[i]]

\* org_gmp_realloc that extends in place without the test of the capacity
org_gmp_realloc_nofit(k, ptr, old_size, new_size, p) ==
  IF new_size <= old_size THEN Ret(k, ptr)
  ELSE Bind(k.arena.current, LAMBDA page :
    IF ptr + old_size = DataOf(page) + k.pages[page].used
    THEN Ret([k EXCEPT !.pages[page].used = @ + (new_size - old_size),
                       !.pages[page].blocks = Extended(@, ptr, new_size)],
             ptr)
    ELSE Bind(arena_alloc(k, new_size, GmpAlign, p), LAMBDA n :
           IF n.ret = NULL THEN Ret(n.m, NULL)
           ELSE Ret([n.m EXCEPT !.mem = memcpy(@, n.ret, ptr, old_size)],
                    n.ret)))

\* p is what malloc returns if arena_alloc's slow path calls it
org_gmp_realloc(k, ptr, old_size, new_size, p) ==
  IF new_size <= old_size THEN Ret(k, ptr)
  ELSE Bind(k.arena.current, LAMBDA page :
    IF /\ ptr + old_size = DataOf(page) + k.pages[page].used
       /\ k.pages[page].used + (new_size - old_size) <= k.pages[page].capacity
    THEN Ret([k EXCEPT !.pages[page].used = @ + (new_size - old_size),
                       !.pages[page].blocks = Extended(@, ptr, new_size)],
             ptr)
    ELSE Bind(arena_alloc(k, new_size, GmpAlign, p), LAMBDA n :
           IF n.ret = NULL THEN Ret(n.m, NULL)
           ELSE Ret([n.m EXCEPT !.mem = memcpy(@, n.ret, ptr, old_size)],
                    n.ret)))

\* Limb driver: on an arena that the runtime also allocates from, GMP
\* allocates blocks, fills them with limbs and reallocates blocks it holds,
\* with their true sizes.  owned is the set of the blocks GMP holds.
LimbSizes == {8, 16}

NewSizes == {8, 24, 48}

KM == [arena |-> page_arena, pages |-> pages, mem |-> gmp.mem]

NoGmpCall == [op |-> "none", ptr |-> NULL, old_size |-> 0, new_size |-> 0,
              ret |-> NULL]

LimbInit ==
  /\ HdrIdle
  /\ \E page_size \in PageSizes, p \in PageAddrs :
       \E n \in {arena_new(page_size, p)} :
          /\ page_arena = n.m.arena
          /\ pages = n.m.pages
          /\ lastOp = Op("new", page_size, 0, n.ret)
  /\ cp = NoCheckpoint
  /\ saved = [pages |-> pages, cp |-> NoCheckpoint, first |-> NoAlloc]
  /\ SmallIdle
  /\ NumIdle
  /\ TabIdle
  /\ gmp = [mem |-> [a \in {} |-> 0], owned |-> {}, call |-> NoGmpCall]
  /\ nops = 0

LimbFrame == UNCHANGED <<hdrvars, cp, saved, small, num, tab>>

\* the limbs GMP writes into a block it was given: nops tells the blocks apart
Fill(mem, ptr, size) ==
  [a \in DOMAIN mem \cup WordsOf(ptr, size) |->
     IF a \in WordsOf(ptr, size)
     THEN 10 * (nops + 1) + ((a - ptr) \div GmpAlign)
     ELSE mem[a]]

\* org_gmp_alloc(size), and the caller's limbs
LimbAlloc(size) ==
  /\ nops < MaxAllocs
  /\ \E p \in malloc(K) :
       \E r \in {org_gmp_alloc(KM, size, p)} :
          /\ page_arena' = r.m.arena
          /\ pages' = r.m.pages
          /\ lastOp' = Op("gmp_alloc", size, 0, r.ret)
          /\ gmp' = IF r.ret = NULL
                    THEN [gmp EXCEPT !.call = [NoGmpCall EXCEPT !.op = "alloc"]]
                    ELSE [mem |-> Fill(gmp.mem, r.ret, size),
                          owned |-> gmp.owned \cup {[p |-> r.ret, size |-> size]},
                          call |-> [NoGmpCall EXCEPT !.op = "alloc",
                                                     !.new_size = size,
                                                     !.ret = r.ret]]
  /\ nops' = nops + 1
  /\ LimbFrame

\* org_gmp_realloc(b.p, b.size, new_size) for a block b that GMP holds
LimbRealloc(b, new_size) ==
  /\ nops < MaxAllocs
  /\ \E p \in malloc(K) :
       \E r \in {org_gmp_realloc(KM, b.p, b.size, new_size, p)} :
          /\ page_arena' = r.m.arena
          /\ pages' = r.m.pages
          /\ lastOp' = Op("realloc", b.size, new_size, r.ret)
          /\ gmp' = [mem |-> r.m.mem,
                     owned |-> IF r.ret = NULL THEN gmp.owned
                               ELSE (gmp.owned \ {b})
                                      \cup {[p |-> r.ret, size |-> new_size]},
                     call |-> [op |-> "realloc", ptr |-> b.p,
                               old_size |-> b.size, new_size |-> new_size,
                               ret |-> r.ret]]
  /\ nops' = nops + 1
  /\ LimbFrame

\* arena_alloc(a, size, align) by the runtime, for an object of its own
LimbOther(size, align) ==
  /\ nops < MaxAllocs
  /\ \E p \in malloc(K) :
       \E r \in {arena_alloc(KM, size, align, p)} :
          /\ page_arena' = r.m.arena
          /\ pages' = r.m.pages
          /\ lastOp' = Op("alloc", size, align, r.ret)
  /\ gmp' = [gmp EXCEPT !.call = NoGmpCall]
  /\ nops' = nops + 1
  /\ LimbFrame

LimbAllocAny == \E size \in LimbSizes : LimbAlloc(size)

LimbReallocAny ==
  \E b \in gmp.owned, new_size \in NewSizes : LimbRealloc(b, new_size)

LimbOtherAny == \E size \in Sizes, align \in Aligns : LimbOther(size, align)

LimbNext == LimbAllocAny \/ LimbReallocAny \/ LimbOtherAny

LimbSpec == LimbInit /\ [][LimbNext]_vars

(***************************************************************************)
(* Part II.  The tagged value word (src/pkg/runtime/core/values.h).        *)
(*                                                                         *)
(* OrgValue is a machine word and int64_t its signed reading.  The word is *)
(* WordBits wide here (64 in the source): every constant of values.h is    *)
(* written relative to the width, so ORG_SMALL_MAX is 2^(WordBits-3) - 1   *)
(* where the source has 2^61 - 1.  Conversions between the signed and the  *)
(* unsigned reading are two's complement, and >> on a signed word is the   *)
(* arithmetic shift.                                                       *)
(***************************************************************************)
TwoToW == 2 ^ WordBits

Int64 == (0 - 2 ^ (WordBits - 1)) .. (2 ^ (WordBits - 1) - 1)

\* (uint64_t)n
ToUnsigned(n) == n % TwoToW

\* (int64_t)v
ToSigned(v) == IF v >= 2 ^ (WordBits - 1) THEN v - TwoToW ELSE v

ORG_TAG_MASK == 3
ORG_TAG_PTR == 0
ORG_TAG_SMALL == 1
ORG_TAG_SPECIAL == 2

\* v & ORG_TAG_MASK
TagBits(v) == v % (ORG_TAG_MASK + 1)

ORG_IS_PTR(v) == TagBits(v) = ORG_TAG_PTR
ORG_IS_SMALL(v) == TagBits(v) = ORG_TAG_SMALL
ORG_IS_SPECIAL(v) == TagBits(v) = ORG_TAG_SPECIAL

ORG_SMALL_MAX == 2 ^ (WordBits - 3) - 1
ORG_SMALL_MIN == 0 - 2 ^ (WordBits - 3)

\* (u << 2) | ORG_TAG_SMALL on an unsigned word: the two low bits of u << 2
\* are clear
ShiftLeft2OrTag(u) == ((u * 4) % TwoToW) + ORG_TAG_SMALL

ORG_TAG_SMALL_INT(n) == ShiftLeft2OrTag(ToUnsigned(n))

\* Variant: the shift is the logical one, on the unsigned word.
ORG_UNTAG_SMALL_INT_logical(v) == v \div 4

\* (int64_t)v >> 2
ORG_UNTAG_SMALL_INT(v) == ToSigned(v) \div 4

org_small_fits(n) == n >= ORG_SMALL_MIN /\ n <= ORG_SMALL_MAX

\* Value driver: any int64_t is tagged, the word is untagged again, and the
\* integer is tested with org_small_fits.
ValueInit ==
  /\ HdrIdle
  /\ ArenaIdle
  /\ NumIdle
  /\ TabIdle
  /\ GmpIdle
  /\ \E n \in Int64 :
       small = [n |-> n, v |-> 0, back |-> 0, fits |-> FALSE, done |-> {}]
  /\ lastOp = Op("boot", 0, 0, 0)
  /\ nops = 0

TagSmall ==
  /\ "tag" \notin small.done
  /\ small' = [small EXCEPT !.v = ORG_TAG_SMALL_INT(small.n), !.done = @ \cup {"tag"}]
  /\ lastOp' = Op("tag", small.n, 0, small'.v)
  /\ UNCHANGED <<hdrvars, nops, arenavars, num, tab, gmp>>

UntagSmall ==
  /\ "tag" \in small.done /\ "untag" \notin small.done
  /\ small' = [small EXCEPT !.back = ORG_UNTAG_SMALL_INT(small.v),
                        !.done = @ \cup {"untag"}]
  /\ lastOp' = Op("untag", small.v, 0, small'.back)
  /\ UNCHANGED <<hdrvars, nops, arenavars, num, tab, gmp>>

SmallFits ==
  /\ "fits" \notin small.done
  /\ small' = [small EXCEPT !.fits = org_small_fits(small.n),
                        !.done = @ \cup {"fits"}]
  /\ UNCHANGED <<hdrvars, lastOp, nops, arenavars, num, tab, gmp>>

ValueNext == TagSmall \/ UntagSmall \/ SmallFits

ValueSpec == ValueInit /\ [][ValueNext]_vars

(***************************************************************************)
(* Part II.  The numeric tower (src/pkg/runtime/ops/ops.c).                *)
(*                                                                         *)
(*   - an OrgValue is [w, type, num, den, scale]: w is the tagged word; a  *)
(*     pointer word (tag 00) stands for the heap object whose header type  *)
(*     is type and whose mpz (num) or mpq (num/den) and scale follow;      *)
(*   - an mpz_t is an integer and an mpq_t a record [num, den]; GMP's own  *)
(*     arithmetic is exact and its mpq results are canonical;              *)
(*   - long is the int64_t word (LP64);                                    *)
(*   - the allocation of a result object is taken to succeed;              *)
(*   - operand a's object is at PtrWord and operand b's at OtherPtrWord,   *)
(*     unless b is the very object a is; results are not compared by       *)
(*     address and keep PtrWord;                                           *)
(*   - GMP's division by zero ends the program: the result is Sigfpe.      *)
(***************************************************************************)
ORG_TRUE == 6
ORG_FALSE == 2
ORG_ERROR == 10
ORG_UNUSED == 14

\* the word of a heap pointer: 8-byte aligned, so its tag bits are 00
PtrWord == 8

Imm(w) == [w |-> w, type |-> "none", num |-> 0, den |-> 1, scale |-> 0]

Obj(type, n, d, scale) ==
  [w |-> PtrWord, type |-> type, num |-> n, den |-> d, scale |-> scale]

\* the word of a second heap object
OtherPtrWord == 2 * PtrWord

\* the same object at another address
At(v, w) == IF v.w = PtrWord THEN [v EXCEPT !.w = w] ELSE v

Sigfpe == [w |-> ORG_UNUSED, type |-> "SIGFPE", num |-> 0, den |-> 1, scale |-> 0]

Abs(x) == IF x < 0 THEN 0 - x ELSE x

Sgn(x) == IF x < 0 THEN 0 - 1 ELSE IF x > 0 THEN 1 ELSE 0

RECURSIVE GCD(_, _)
GCD(x, y) == IF y = 0 THEN x ELSE GCD(y, x % y)

\* mpq_canonicalize: lowest terms, positive denominator (d # 0)
mpq_canonicalize(n, d) ==
  Bind(GCD(Abs(n), Abs(d)), LAMBDA g :
    [num |-> Sgn(d) * Sgn(n) * (Abs(n) \div g), den |-> Abs(d) \div g])

mpq_add(x, y) == mpq_canonicalize(x.num * y.den + y.num * x.den, x.den * y.den)
mpq_sub(x, y) == mpq_canonicalize(x.num * y.den - y.num * x.den, x.den * y.den)
\* Variant: the product is left as it is, not in lowest terms.
mpq_mul_raw(x, y) == [num |-> x.num * y.num, den |-> x.den * y.den]

mpq_mul(x, y) == mpq_canonicalize(x.num * y.num, x.den * y.den)
mpq_div(x, y) == mpq_canonicalize(x.num * y.den, x.den * y.num)

\* mpz_tdiv_qr: quotient rounded towards zero, remainder with n's sign
mpz_tdiv_q(n, d) == Sgn(n) * Sgn(d) * (Abs(n) \div Abs(d))
mpz_tdiv_r(n, d) == n - d * mpz_tdiv_q(n, d)

mpz_sgn_nonzero(z) == 1

mpz_sgn(z) == Sgn(z)

mpq_cmp(x, y) == Sgn(x.num * y.den - y.num * x.den)

\* mpz_mod: the remainder is never negative
mpz_mod(n, d) == n % Abs(d)

RECURSIVE mpz_pow_ui(_, _)
mpz_pow_ui(z, e) == IF e = 0 THEN 1 ELSE z * mpz_pow_ui(z, e - 1)

\* __builtin_*_overflow on int64_t: x is the exact result
Checked(x) == [overflow |-> x \notin Int64, result |-> ToSigned(x % TwoToW)]

\* constructors of values.c
ValSmall(n) == Imm(ORG_TAG_SMALL_INT(n))

org_make_bigint_si(n) == Obj("ORG_TYPE_BIGINT", n, 1, 0)

org_make_rational_mpz(n, d) ==
  Bind(mpq_canonicalize(n, d), LAMBDA q :
    Obj("ORG_TYPE_RATIONAL", q.num, q.den, 0))

\* digits is the decimal string without its point, scale the digits after it
org_make_decimal_str(digits, scale) ==
  Bind(mpq_canonicalize(digits, 10 ^ scale), LAMBDA q :
    Obj("ORG_TYPE_DECIMAL", q.num, q.den, scale))

org_make_string == Obj("ORG_TYPE_STRING", 0, 1, 0)

org_get_type(v) == v.type

org_is_integer(v) ==
  ORG_IS_SMALL(v.w) \/ (ORG_IS_PTR(v.w) /\ org_get_type(v) = "ORG_TYPE_BIGINT")

org_is_rational(v) == ORG_IS_PTR(v.w) /\ org_get_type(v) = "ORG_TYPE_RATIONAL"

org_is_decimal(v) == ORG_IS_PTR(v.w) /\ org_get_type(v) = "ORG_TYPE_DECIMAL"

org_is_numeric(v) == org_is_integer(v) \/ org_is_rational(v) \/ org_is_decimal(v)

num_category(v) ==
  IF ORG_IS_SMALL(v.w) THEN "NUM_SMALL"
  ELSE IF ~ORG_IS_PTR(v.w) THEN "NUM_NONE"
  ELSE CASE org_get_type(v) = "ORG_TYPE_BIGINT" -> "NUM_BIGINT"
         [] org_get_type(v) = "ORG_TYPE_RATIONAL" -> "NUM_RATIONAL"
         [] org_get_type(v) = "ORG_TYPE_DECIMAL" -> "NUM_DECIMAL"
         [] OTHER -> "NUM_NONE"

IsIntCat(c) == c = "NUM_SMALL" \/ c = "NUM_BIGINT"

to_mpz(v) == IF ORG_IS_SMALL(v.w) THEN ORG_UNTAG_SMALL_INT(v.w) ELSE v.num

to_mpq(v) ==
  IF ORG_IS_SMALL(v.w) THEN [num |-> ORG_UNTAG_SMALL_INT(v.w), den |-> 1]
  ELSE CASE org_get_type(v) = "ORG_TYPE_BIGINT" -> [num |-> v.num, den |-> 1]
         [] org_get_type(v) = "ORG_TYPE_RATIONAL" -> [num |-> v.num, den |-> v.den]
         [] org_get_type(v) = "ORG_TYPE_DECIMAL" -> [num |-> v.num, den |-> v.den]
         [] OTHER -> [num |-> 0, den |-> 1]

\* Variant: the result is always boxed.
wrap_mpz_boxed(z) == Obj("ORG_TYPE_BIGINT", z, 1, 0)

\* mpz_fits_slong_p, mpz_get_si, org_small_fits
wrap_mpz(z) ==
  IF z \in Int64 /\ org_small_fits(z) THEN Imm(ORG_TAG_SMALL_INT(z))
  ELSE Obj("ORG_TYPE_BIGINT", z, 1, 0)

\* Variant: a denominator of 1 is not rewrapped.
wrap_mpq_rational_norewrap(q) == Obj("ORG_TYPE_RATIONAL", q.num, q.den, 0)

wrap_mpq_rational(q) ==
  IF q.den = 1 THEN wrap_mpz(q.num)
  ELSE Obj("ORG_TYPE_RATIONAL", q.num, q.den, 0)

wrap_mpq_decimal(q, scale) == Obj("ORG_TYPE_DECIMAL", q.num, q.den, scale)

get_scale(v) ==
  IF ORG_IS_PTR(v.w) /\ org_get_type(v) = "ORG_TYPE_DECIMAL" THEN v.scale ELSE 0

\* the body shared by org_add, org_sub and org_mul: zr and qr are the exact
\* results of the operation on the operands as mpz and as mpq
Arith(a, b, zr, qr, scale) ==
  IF ORG_IS_SMALL(a.w) /\ ORG_IS_SMALL(b.w)
  THEN IF ~Checked(zr).overflow /\ org_small_fits(Checked(zr).result)
       THEN Imm(ORG_TAG_SMALL_INT(Checked(zr).result))
       ELSE wrap_mpz(zr)
  ELSE IF a.w = ORG_ERROR \/ b.w = ORG_ERROR THEN Imm(ORG_ERROR)
  ELSE IF num_category(a) = "NUM_NONE" \/ num_category(b) = "NUM_NONE"
       THEN Imm(ORG_ERROR)
  ELSE IF IsIntCat(num_category(a)) /\ IsIntCat(num_category(b))
       THEN wrap_mpz(zr)
  ELSE IF num_category(a) = "NUM_DECIMAL" \/ num_category(b) = "NUM_DECIMAL"
       THEN wrap_mpq_decimal(qr, scale)
  ELSE wrap_mpq_rational(qr)

MaxScale(a, b) == IF get_scale(b) > get_scale(a) THEN get_scale(b) ELSE get_scale(a)

org_add(a, b) ==
  Arith(a, b, to_mpz(a) + to_mpz(b),
        mpq_add(to_mpq(a), to_mpq(b)), MaxScale(a, b))

org_sub(a, b) ==
  Arith(a, b, to_mpz(a) - to_mpz(b),
        mpq_sub(to_mpq(a), to_mpq(b)), MaxScale(a, b))

org_mul(a, b) ==
  Arith(a, b, to_mpz(a) * to_mpz(b),
        mpq_mul(to_mpq(a), to_mpq(b)), get_scale(a) + get_scale(b))

\* Variant: an inexact integer quotient is truncated.
org_div_int_trunc(za, zb) == wrap_mpz(mpz_tdiv_q(za, zb))

\* org_div on two integers: mpz_tdiv_qr divides by zb
org_div_int(za, zb) ==
  IF zb = 0 THEN Sigfpe
  ELSE IF mpz_tdiv_r(za, zb) = 0 THEN wrap_mpz(mpz_tdiv_q(za, zb))
  ELSE wrap_mpq_rational(mpq_div([num |-> za, den |-> 1],
                                 [num |-> zb, den |-> 1]))

DivScale(a, b) ==
  IF get_scale(a) # 0 THEN get_scale(a)
  ELSE IF get_scale(b) # 0 THEN get_scale(b) ELSE 1

org_div(a, b) ==
  IF a.w = ORG_ERROR \/ b.w = ORG_ERROR THEN Imm(ORG_ERROR)
  ELSE IF ORG_IS_SMALL(b.w) /\ ORG_UNTAG_SMALL_INT(b.w) = 0 THEN Imm(ORG_ERROR)
  ELSE IF ORG_IS_PTR(b.w) /\ org_get_type(b) = "ORG_TYPE_BIGINT"
            /\ mpz_sgn(b.num) = 0
       THEN Imm(ORG_ERROR)
  ELSE IF num_category(a) = "NUM_NONE" \/ num_category(b) = "NUM_NONE"
       THEN Imm(ORG_ERROR)
  ELSE IF IsIntCat(num_category(a)) /\ IsIntCat(num_category(b))
       THEN org_div_int(to_mpz(a), to_mpz(b))
  ELSE IF to_mpq(b).num = 0 THEN Imm(ORG_ERROR)
  ELSE IF num_category(a) = "NUM_DECIMAL" \/ num_category(b) = "NUM_DECIMAL"
       THEN wrap_mpq_decimal(mpq_div(to_mpq(a), to_mpq(b)), DivScale(a, b))
  ELSE wrap_mpq_rational(mpq_div(to_mpq(a), to_mpq(b)))

org_mod(a, b) ==
  IF a.w = ORG_ERROR \/ b.w = ORG_ERROR THEN Imm(ORG_ERROR)
  ELSE IF ~(IsIntCat(num_category(a)) /\ IsIntCat(num_category(b)))
       THEN Imm(ORG_ERROR)
  ELSE IF ORG_IS_SMALL(b.w) /\ ORG_UNTAG_SMALL_INT(b.w) = 0 THEN Imm(ORG_ERROR)
  ELSE IF ORG_IS_SMALL(a.w) /\ ORG_IS_SMALL(b.w)
       THEN Imm(ORG_TAG_SMALL_INT(mpz_tdiv_r(ORG_UNTAG_SMALL_INT(a.w),
                                             ORG_UNTAG_SMALL_INT(b.w))))
  ELSE IF to_mpz(b) = 0 THEN Sigfpe
  ELSE wrap_mpz(mpz_mod(to_mpz(a), to_mpz(b)))

org_neg(a) ==
  IF a.w = ORG_ERROR THEN Imm(ORG_ERROR)
  ELSE IF ORG_IS_SMALL(a.w)
       THEN IF ~Checked(0 - to_mpz(a)).overflow
                 /\ org_small_fits(Checked(0 - to_mpz(a)).result)
            THEN Imm(ORG_TAG_SMALL_INT(Checked(0 - to_mpz(a)).result))
            ELSE wrap_mpz(0 - to_mpz(a))
  ELSE IF num_category(a) = "NUM_NONE" THEN Imm(ORG_ERROR)
  ELSE IF num_category(a) = "NUM_BIGINT" THEN wrap_mpz(0 - to_mpz(a))
  ELSE IF num_category(a) = "NUM_DECIMAL"
       THEN wrap_mpq_decimal([num |-> 0 - a.num, den |-> a.den], get_scale(a))
  ELSE wrap_mpq_rational([num |-> 0 - a.num, den |-> a.den])

\* the exponent org_pow computes with, when it gets that far; -1 otherwise
PowExponent(base, exp) ==
  IF base.w = ORG_ERROR \/ exp.w = ORG_ERROR \/ ~org_is_integer(exp) THEN 0 - 1
  ELSE IF to_mpz(exp) < 0 \/ to_mpz(exp) >= TwoToW THEN 0 - 1
  ELSE IF num_category(base) = "NUM_NONE" THEN 0 - 1
  ELSE to_mpz(exp)

org_pow(base, exp) ==
  IF base.w = ORG_ERROR \/ exp.w = ORG_ERROR THEN Imm(ORG_ERROR)
  ELSE IF ~org_is_integer(exp) THEN Imm(ORG_ERROR)
  ELSE IF to_mpz(exp) < 0 THEN Imm(ORG_ERROR)
  ELSE IF ~ORG_IS_SMALL(exp.w) /\ to_mpz(exp) >= TwoToW THEN Imm(ORG_ERROR)
  ELSE IF num_category(base) = "NUM_NONE" THEN Imm(ORG_ERROR)
  ELSE IF IsIntCat(num_category(base))
       THEN wrap_mpz(mpz_pow_ui(to_mpz(base), to_mpz(exp)))
  ELSE Bind(mpq_canonicalize(mpz_pow_ui(base.num, to_mpz(exp)),
                             mpz_pow_ui(base.den, to_mpz(exp))), LAMBDA q :
         IF num_category(base) = "NUM_DECIMAL"
         THEN wrap_mpq_decimal(q, get_scale(base) * to_mpz(exp))
         ELSE wrap_mpq_rational(q))

ORG_BOOL(c) == IF c THEN Imm(ORG_TRUE) ELSE Imm(ORG_FALSE)

\* Variant: the numerators alone are compared.
org_cmp_internal_numerators(a, b) ==
  IF ORG_IS_SMALL(a.w) /\ ORG_IS_SMALL(b.w)
  THEN Sgn(ORG_UNTAG_SMALL_INT(a.w) - ORG_UNTAG_SMALL_INT(b.w))
  ELSE Sgn(to_mpq(a).num - to_mpq(b).num)

org_cmp_internal(a, b) ==
  IF ORG_IS_SMALL(a.w) /\ ORG_IS_SMALL(b.w)
  THEN Sgn(ORG_UNTAG_SMALL_INT(a.w) - ORG_UNTAG_SMALL_INT(b.w))
  ELSE mpq_cmp(to_mpq(a), to_mpq(b))

\* Variant: no check for ORG_ERROR.
org_eq_unchecked(a, b) ==
  IF ~org_is_numeric(a) \/ ~org_is_numeric(b) THEN ORG_BOOL(a.w = b.w)
  ELSE ORG_BOOL(org_cmp_internal(a, b) = 0)

\* a == b on two OrgValues compares the words: identity for heap objects
org_eq(a, b) ==
  IF a.w = ORG_ERROR \/ b.w = ORG_ERROR THEN Imm(ORG_ERROR)
  ELSE IF ~org_is_numeric(a) \/ ~org_is_numeric(b) THEN ORG_BOOL(a.w = b.w)
  ELSE ORG_BOOL(org_cmp_internal(a, b) = 0)

org_lt(a, b) ==
  IF a.w = ORG_ERROR \/ b.w = ORG_ERROR THEN Imm(ORG_ERROR)
  ELSE IF ~org_is_numeric(a) \/ ~org_is_numeric(b) THEN Imm(ORG_ERROR)
  ELSE ORG_BOOL(org_cmp_internal(a, b) < 0)

org_le(a, b) ==
  IF a.w = ORG_ERROR \/ b.w = ORG_ERROR THEN Imm(ORG_ERROR)
  ELSE IF ~org_is_numeric(a) \/ ~org_is_numeric(b) THEN Imm(ORG_ERROR)
  ELSE ORG_BOOL(org_cmp_internal(a, b) <= 0)

org_gt(a, b) ==
  IF a.w = ORG_ERROR \/ b.w = ORG_ERROR THEN Imm(ORG_ERROR)
  ELSE IF ~org_is_numeric(a) \/ ~org_is_numeric(b) THEN Imm(ORG_ERROR)
  ELSE ORG_BOOL(org_cmp_internal(a, b) > 0)

org_ge(a, b) ==
  IF a.w = ORG_ERROR \/ b.w = ORG_ERROR THEN Imm(ORG_ERROR)
  ELSE IF ~org_is_numeric(a) \/ ~org_is_numeric(b) THEN Imm(ORG_ERROR)
  ELSE ORG_BOOL(org_cmp_internal(a, b) >= 0)

org_ne(a, b) ==
  IF a.w = ORG_ERROR \/ b.w = ORG_ERROR THEN Imm(ORG_ERROR)
  ELSE IF ~org_is_numeric(a) \/ ~org_is_numeric(b) THEN ORG_BOOL(a.w # b.w)
  ELSE ORG_BOOL(org_cmp_internal(a, b) # 0)

\* Numeric driver: two operands of any representation, then one operation.
\* Every immediate integer is an operand; the boxed operands are the values
\* around the ends of the small range and of the int64_t range, unnormalised
\* ones included, as the constructors of values.c build them.
BigOperands ==
  {org_make_bigint_si(z) :
     z \in {0, 1, 3, 0 - 2, ORG_SMALL_MAX, ORG_SMALL_MAX + 1, ORG_SMALL_MIN,
            ORG_SMALL_MIN - 1, 2 ^ (WordBits - 1) - 1, 2 ^ (WordBits - 1),
            0 - 2 ^ (WordBits - 1), 0 - 2 ^ (WordBits - 1) - 1}}

RationalOperands ==
  {org_make_rational_mpz(q[1], q[2]) :
     q \in {<<1, 2>>, <<0 - 1, 2>>, <<3, 2>>, <<2, 3>>, <<4, 2>>, <<0, 1>>}}

DecimalOperands ==
  {org_make_decimal_str(q[1], q[2]) :
     q \in {<<5, 1>>, <<15, 1>>, <<20, 1>>, <<0, 1>>, <<25, 2>>, <<3, 0>>}}

NumOperands ==
  {ValSmall(n) : n \in ORG_SMALL_MIN..ORG_SMALL_MAX}
     \cup BigOperands \cup RationalOperands \cup DecimalOperands
     \cup {Imm(ORG_ERROR), Imm(ORG_TRUE), org_make_string}

\* exponents beyond these are not explored
PowExps == 0..3

NumInit ==
  /\ HdrIdle
  /\ ArenaIdle
  /\ SmallIdle
  /\ TabIdle
  /\ GmpIdle
  /\ \E a \in NumOperands :
       \E b \in {At(x, OtherPtrWord) : x \in NumOperands} \cup {a} :
         num = [a |-> a, b |-> b, op |-> "none", r |-> Imm(ORG_UNUSED)]
  /\ lastOp = Op("boot", 0, 0, 0)
  /\ nops = 0

Apply(op, r) ==
  /\ num.op = "none"
  /\ num' = [num EXCEPT !.op = op, !.r = r]
  /\ UNCHANGED <<hdrvars, lastOp, nops, arenavars, small, tab, gmp>>

Add == Apply("add", org_add(num.a, num.b))

Sub == Apply("sub", org_sub(num.a, num.b))

Mul == Apply("mul", org_mul(num.a, num.b))

Div == Apply("div", org_div(num.a, num.b))

Mod == Apply("mod", org_mod(num.a, num.b))

\* org_neg(arena, a)
Neg == Apply("neg", org_neg(num.a))

Pow ==
  /\ PowExponent(num.a, num.b) \in {0 - 1} \cup PowExps
  /\ Apply("pow", org_pow(num.a, num.b))

Eq == Apply("eq", org_eq(num.a, num.b))

Ne == Apply("ne", org_ne(num.a, num.b))

Lt == Apply("lt", org_lt(num.a, num.b))

Le == Apply("le", org_le(num.a, num.b))

Gt == Apply("gt", org_gt(num.a, num.b))

Ge == Apply("ge", org_ge(num.a, num.b))

\* org_mul(arena, org_div(arena, a, b), b)
DivMul == Apply("divmul", org_mul(org_div(num.a, num.b), num.b))

NumNext ==
  \/ Add \/ Sub \/ Mul \/ Div \/ Mod \/ Neg \/ Pow
  \/ Eq \/ Ne \/ Lt \/ Le \/ Gt \/ Ge
  \/ DivMul

NumSpec == NumInit /\ [][NumNext]_vars

(***************************************************************************)
(* Part II.  The table (src/pkg/runtime/table/table.c).                    *)
(*                                                                         *)
(*   - uint32_t is the unsigned integer of UintBits bits (32 in the        *)
(*     source), and the uint64_t of the integer hash is twice as wide;     *)
(*     the shift of the integer hash is half of UintBits (16 of 32);       *)
(*   - a string is [w, type, ..., data]: w is the address of the OrgString *)
(*     object and data its bytes;                                          *)
(*   - entries is the array as a function on the indices of its used       *)
(*     slots; every other slot below capacity is as alloc_entries left it; *)
(*   - the allocation of a table and of its entries is taken to succeed;   *)
(*   - find_slot's loop that goes round a full array never ends: NoSlot,   *)
(*     and the call returns Hang;                                          *)
(*   - an index outside the entries array is undefined behaviour: the      *)
(*     process ends (Segv), or the word read there happens to be           *)
(*     ORG_UNUSED ("unused"), or it happens to match the key ("match").    *)
(***************************************************************************)
TABLE_INITIAL_CAP == 8
TABLE_LOAD_PERCENT == 75

TwoToU == 2 ^ UintBits

Uint32(x) == x % TwoToU

Uint64(x) == x % (TwoToU * TwoToU)

HashShift == UintBits \div 2

\* a ^ b on unsigned integers
RECURSIVE Xor(_, _)
Xor(a, b) ==
  IF a = 0 THEN b
  ELSE IF b = 0 THEN a
  ELSE ((a + b) % 2) + 2 * Xor(a \div 2, b \div 2)

\* a & b on unsigned integers
RECURSIVE BitAnd(_, _)
BitAnd(a, b) ==
  IF a = 0 \/ b = 0 THEN 0
  ELSE ((a % 2) * (b % 2)) + 2 * BitAnd(a \div 2, b \div 2)

\* a * b in unsigned arithmetic modulo m
RECURSIVE MulMod(_, _, _)
MulMod(a, b, m) ==
  IF b = 0 THEN 0
  ELSE ((IF b % 2 = 1 THEN a ELSE 0) + 2 * MulMod(a, b \div 2, m)) % m

\* the low 16 bits, 0x9DC5, of the offset basis 2166136261 = 0x811C9DC5
FnvOffsetBasis == 40389

FnvPrime == 16777619

RECURSIVE fnv1a(_)
fnv1a(data) ==
  IF data = <<>> THEN Uint32(FnvOffsetBasis)
  ELSE MulMod(Xor(fnv1a(SubSeq(data, 1, Len(data) - 1)), data[Len(data)]),
              Uint32(FnvPrime), TwoToU)

\* 0x45d9f3b
MixMultiplier == 73244475

\* k = (k ^ (k >> 16)) * 0x45d9f3b on uint64_t
Mix(k) ==
  MulMod(Xor(k, k \div (2 ^ HashShift)), Uint64(MixMultiplier), TwoToU * TwoToU)

org_hash_value(key) ==
  IF ORG_IS_SMALL(key.w)
  THEN Bind(Mix(Mix(Uint64(key.w))), LAMBDA k :
         Uint32(Xor(k, k \div (2 ^ HashShift))))
  ELSE IF ORG_IS_PTR(key.w) /\ org_get_type(key) = "ORG_TYPE_STRING"
       THEN fnv1a(key.data)
  ELSE 0

OrgString(addr, data) ==
  [w |-> addr, type |-> "ORG_TYPE_STRING", num |-> 0, den |-> 1, scale |-> 0,
   data |-> data]

org_key_equal(a, b) ==
  IF a.w = b.w THEN TRUE
  ELSE IF ORG_IS_SMALL(a.w) /\ ORG_IS_SMALL(b.w) THEN FALSE
  ELSE IF /\ ORG_IS_PTR(a.w) /\ ORG_IS_PTR(b.w)
          /\ org_get_type(a) = "ORG_TYPE_STRING"
          /\ org_get_type(b) = "ORG_TYPE_STRING"
       THEN Len(a.data) = Len(b.data) /\ a.data = b.data
  ELSE FALSE

UnusedEntry == [key |-> Imm(ORG_UNUSED), value |-> Imm(ORG_UNUSED), hash |-> 0]

alloc_entries(capacity) == [i \in {} |-> UnusedEntry]

EntryAt(entries, idx) ==
  IF idx \in DOMAIN entries THEN entries[idx] ELSE UnusedEntry

NoSlot == 0 - 1

Segv == [w |-> ORG_UNUSED, type |-> "SIGSEGV", num |-> 0, den |-> 1, scale |-> 0]

Hang == [w |-> ORG_UNUSED, type |-> "HANG", num |-> 0, den |-> 1, scale |-> 0]

UbOutcomes == {"crash", "unused", "match"}

\* the loop of find_slot, org_table_get: n slots are left to visit
RECURSIVE Probe(_, _, _, _, _, _)
Probe(entries, mask, key, hash, idx, n) ==
  IF n = 0 THEN NoSlot
  ELSE IF EntryAt(entries, idx).key.w = ORG_UNUSED THEN idx
  ELSE IF EntryAt(entries, idx).hash = hash
            /\ org_key_equal(EntryAt(entries, idx).key, key)
       THEN idx
  ELSE Bind(BitAnd(idx + 1, mask), LAMBDA next :
         Probe(entries, mask, key, hash, next, n - 1))

\* capacity > 0
find_slot(entries, capacity, key, hash) ==
  Probe(entries, capacity - 1, key, hash, BitAnd(hash, capacity - 1), capacity)

\* the rehash loop of table_grow over the used slots rest, lowest index first
RECURSIVE Rehash(_, _, _, _)
Rehash(old, rest, new_entries, new_cap) ==
  IF rest = {} THEN new_entries
  ELSE Bind(CHOOSE i \in rest : \A j \in rest : i <= j, LAMBDA i :
         Bind((find_slot(new_entries, new_cap, old[i].key, old[i].hash)
                 :> old[i]) @@ new_entries, LAMBDA inserted :
           Bind(rest \ {i}, LAMBDA left :
             Rehash(old, left, inserted, new_cap))))

\* a new capacity of 0 leaves the rehash to the caller's oracle
table_grow(t) ==
  IF Uint32(t.capacity * 2) = 0
  THEN [t EXCEPT !.capacity = 0, !.entries = alloc_entries(0)]
  ELSE [t EXCEPT !.capacity = Uint32(t.capacity * 2),
                 !.entries = Rehash(t.entries, DOMAIN t.entries,
                                    alloc_entries(Uint32(t.capacity * 2)),
                                    Uint32(t.capacity * 2))]

is_valid_key(key) ==
  \/ ORG_IS_SMALL(key.w)
  \/ ORG_IS_PTR(key.w) /\ org_get_type(key) = "ORG_TYPE_STRING"

IsTable(table) == ORG_IS_PTR(table.w) /\ org_get_type(table) = "ORG_TYPE_TABLE"

\* while (cap < expected) cap *= 2: with cap = 0 the loop never ends
RECURSIVE RoundUp(_, _)
RoundUp(cap, expected) ==
  IF cap = 0 THEN 0
  ELSE IF cap < expected THEN RoundUp(Uint32(cap * 2), expected)
  ELSE cap

\* the OrgTable object
org_table_new_sized(expected) ==
  [count |-> 0, capacity |-> RoundUp(TABLE_INITIAL_CAP, expected),
   next_index |-> 0,
   entries |-> alloc_entries(RoundUp(TABLE_INITIAL_CAP, expected))]

org_table_new == org_table_new_sized(TABLE_INITIAL_CAP)

\* the OrgValue of the table
TableValue == Obj("ORG_TYPE_TABLE", 0, 1, 0)

TRet(t, v) == [t |-> t, ret |-> v]

\* the load factor test of org_table_set
NeedsGrow(t) ==
  Uint32((t.count + 1) * 100) > Uint32(t.capacity * TABLE_LOAD_PERCENT)

org_table_set(t, table, key, value, ub) ==
  IF ~IsTable(table) THEN TRet(t, Imm(ORG_ERROR))
  ELSE IF ~is_valid_key(key) THEN TRet(t, Imm(ORG_ERROR))
  ELSE Bind(IF NeedsGrow(t) THEN table_grow(t) ELSE t, LAMBDA g :
    IF g.capacity = 0
    THEN CASE ub = "crash" -> TRet(g, Segv)
           [] ub = "unused" -> TRet([g EXCEPT !.count = Uint32(@ + 1)], table)
           [] ub = "match" -> TRet(g, table)
    ELSE Bind(org_hash_value(key), LAMBDA hash :
         Bind(find_slot(g.entries, g.capacity, key, hash), LAMBDA slot :
           IF slot = NoSlot THEN TRet(g, Hang)
           ELSE TRet([g EXCEPT
                        !.count = IF EntryAt(g.entries, slot).key.w = ORG_UNUSED
                                  THEN Uint32(@ + 1) ELSE @,
                        !.entries = (slot :> [key |-> key, value |-> value,
                                              hash |-> hash]) @@ @],
                     table))))

\* org_table_push without its test of the receiver
org_table_push_unchecked(t, table, value, ub) ==
  org_table_set([t EXCEPT !.next_index = Uint32(@ + 1)], table,
                Imm(ORG_TAG_SMALL_INT(t.next_index)), value, ub)

org_table_push(t, table, value, ub) ==
  IF ~IsTable(table) THEN TRet(t, Imm(ORG_ERROR))
  ELSE org_table_set([t EXCEPT !.next_index = Uint32(@ + 1)], table,
                     Imm(ORG_TAG_SMALL_INT(t.next_index)), value, ub)

org_table_get(t, table, key, ub) ==
  IF ~IsTable(table) THEN Imm(ORG_ERROR)
  ELSE IF ~is_valid_key(key) THEN Imm(ORG_ERROR)
  ELSE IF t.capacity = 0
       THEN CASE ub = "crash" -> Segv
              [] ub = "unused" -> Imm(ORG_ERROR)
              [] ub = "match" -> Imm(ORG_UNUSED)
  ELSE Bind(find_slot(t.entries, t.capacity, key, org_hash_value(key)),
            LAMBDA slot :
         IF slot = NoSlot THEN Hang
         ELSE IF EntryAt(t.entries, slot).key.w = ORG_UNUSED THEN Imm(ORG_ERROR)
         ELSE EntryAt(t.entries, slot).value)

\* a call that did not return has no value to test
org_table_has(t, table, key, ub) ==
  IF org_table_get(t, table, key, ub).type \in {"SIGSEGV", "HANG"}
  THEN org_table_get(t, table, key, ub)
  ELSE ORG_BOOL(org_table_get(t, table, key, ub).w # ORG_ERROR)

\* strlen of a C string given by its bytes: the bytes before the first NUL
strlen(name) ==
  IF \E i \in 1..Len(name) : name[i] = 0
  THEN (CHOOSE i \in 1..Len(name) :
          name[i] = 0 /\ \A j \in 1..(i - 1) : name[j] # 0) - 1
  ELSE Len(name)

\* the loop of org_table_get_cstr whose inline comparison never succeeds
RECURSIVE ProbeCstr_miss(_, _, _, _, _, _)
ProbeCstr_miss(entries, mask, name, hash, idx, n) ==
  IF n = 0 THEN NoSlot
  ELSE IF EntryAt(entries, idx).key.w = ORG_UNUSED THEN idx
  ELSE Bind(BitAnd(idx + 1, mask), LAMBDA next :
         ProbeCstr_miss(entries, mask, name, hash, next, n - 1))

\* the loop of org_table_get_cstr: n slots are left to visit
RECURSIVE ProbeCstr(_, _, _, _, _, _)
ProbeCstr(entries, mask, name, hash, idx, n) ==
  IF n = 0 THEN NoSlot
  ELSE IF EntryAt(entries, idx).key.w = ORG_UNUSED THEN idx
  ELSE IF /\ EntryAt(entries, idx).hash = hash
          /\ ORG_IS_PTR(EntryAt(entries, idx).key.w)
          /\ org_get_type(EntryAt(entries, idx).key) = "ORG_TYPE_STRING"
          /\ Len(EntryAt(entries, idx).key.data) = Len(name)
          /\ EntryAt(entries, idx).key.data = name
       THEN idx
  ELSE Bind(BitAnd(idx + 1, mask), LAMBDA next :
         ProbeCstr(entries, mask, name, hash, next, n - 1))

\* name is the bytes of the C string; the call takes no arena
org_table_get_cstr(t, table, name, ub) ==
  IF ~IsTable(table) THEN Imm(ORG_ERROR)
  ELSE IF t.capacity = 0
       THEN CASE ub = "crash" -> Segv
              [] ub = "unused" -> Imm(ORG_ERROR)
              [] ub = "match" -> Imm(ORG_UNUSED)
  ELSE Bind(SubSeq(name, 1, strlen(name)), LAMBDA bytes :
       Bind(fnv1a(bytes), LAMBDA hash :
       Bind(ProbeCstr(t.entries, t.capacity - 1, bytes, hash,
                      BitAnd(hash, t.capacity - 1), t.capacity),
            LAMBDA slot :
         IF slot = NoSlot THEN Hang
         ELSE IF EntryAt(t.entries, slot).key.w = ORG_UNUSED THEN Imm(ORG_ERROR)
         ELSE EntryAt(t.entries, slot).value)))

org_table_count(t, table) == IF ~IsTable(table) THEN 0 ELSE t.count

\* Table driver: one table made by org_table_new, then any sequence of
\* org_table_set, org_table_push, org_table_get, org_table_get_cstr,
\* org_table_has and org_table_count on it, and of calls on other receivers.  shadow, pushed and anyset are history variables:
\* the value last stored under each key, a string key standing for its
\* bytes, the values pushed, in order, and whether org_table_set was called.
StringKeys == {OrgString(2 * PtrWord, <<97>>), OrgString(3 * PtrWord, <<97>>)}

SetKeys == {ValSmall(1)} \cup StringKeys \cup {Imm(ORG_TRUE)}

QueryKeys == SetKeys \cup {ValSmall(0)}

TableValues == {ValSmall(7), Imm(ORG_ERROR)}

\* the value of the i-th push: ERROR first, an integer afterwards
PushValue(i) == IF i = 0 THEN Imm(ORG_ERROR) ELSE ValSmall(i)

\* a key as the table tells keys apart: a string by its bytes
KeyOf(key) == IF ORG_IS_PTR(key.w) THEN [key EXCEPT !.w = 0] ELSE key

NoCall == [op |-> "new", key |-> Imm(ORG_UNUSED), value |-> Imm(ORG_UNUSED),
           ret |-> TableValue, n |-> 0]

TableInit ==
  /\ HdrIdle
  /\ ArenaIdle
  /\ SmallIdle
  /\ NumIdle
  /\ GmpIdle
  /\ tab = [t |-> org_table_new, shadow |-> [k \in {} |-> Imm(ORG_UNUSED)],
            pushed |-> <<>>, anyset |-> FALSE, call |-> NoCall]
  /\ lastOp = Op("boot", 0, 0, 0)
  /\ nops = 0

\* the last call returned and the table can be used
Usable == tab.call.ret.type \notin {"SIGSEGV", "HANG"}

TableFrame == UNCHANGED <<hdrvars, lastOp, nops, arenavars, small, num, gmp>>

TableSet(key, value) ==
  /\ Usable /\ tab.t.capacity > 0
  /\ \E ub \in UbOutcomes :
       \E r \in {org_table_set(tab.t, TableValue, key, value, ub)} :
         tab' = [tab EXCEPT
                   !.t = r.t,
                   !.shadow = IF r.ret = TableValue
                              THEN (KeyOf(key) :> value) @@ @ ELSE @,
                   !.anyset = TRUE,
                   !.call = [op |-> "set", key |-> key, value |-> value,
                             ret |-> r.ret, n |-> tab.t.next_index]]
  /\ TableFrame

TablePush(value) ==
  /\ Usable /\ tab.t.capacity > 0
  /\ \E ub \in UbOutcomes :
       \E r \in {org_table_push(tab.t, TableValue, value, ub)} :
         tab' = [tab EXCEPT
                   !.t = r.t,
                   !.shadow = IF r.ret = TableValue
                              THEN (ValSmall(tab.t.next_index) :> value) @@ @
                              ELSE @,
                   !.pushed = IF r.ret = TableValue THEN Append(@, value) ELSE @,
                   !.call = [op |-> "push", key |-> ValSmall(tab.t.next_index),
                             value |-> value, ret |-> r.ret,
                             n |-> tab.t.next_index]]
  /\ TableFrame

TableQuery(op, key, ret) ==
  /\ Usable
  /\ tab' = [tab EXCEPT !.call = [op |-> op, key |-> key,
                                  value |-> Imm(ORG_UNUSED), ret |-> ret,
                                  n |-> tab.t.next_index]]
  /\ TableFrame

TableGet(key) ==
  \E ub \in UbOutcomes :
     TableQuery("get", key, org_table_get(tab.t, TableValue, key, ub))

TableHas(key) ==
  \E ub \in UbOutcomes :
     TableQuery("has", key, org_table_has(tab.t, TableValue, key, ub))

TableCount ==
  TableQuery("count", Imm(ORG_UNUSED),
             ValSmall(org_table_count(tab.t, TableValue)))

SetAny == \E key \in SetKeys, value \in TableValues : TableSet(key, value)

PushNext ==
  /\ tab.t.next_index < MaxPush
  /\ TablePush(PushValue(tab.t.next_index))

GetAny == \E key \in QueryKeys : TableGet(key)

HasAny == \E key \in QueryKeys : TableHas(key)

\* the names looked up by org_table_get_cstr, and the word of the transient
\* string that org_make_string would build for a name
Names == {<<97>>, <<98>>}

TransientWord == 4 * PtrWord

TableGetCstr(name) ==
  \E ub \in UbOutcomes :
     TableQuery("get_cstr", OrgString(TransientWord, name),
                org_table_get_cstr(tab.t, TableValue, name, ub))

GetCstrAny == \E name \in Names : TableGetCstr(name)

\* receivers that are not tables: immediates and a string object
NonTables == {ValSmall(1), Imm(ORG_ERROR), OrgString(2 * PtrWord, <<97>>)}

\* a call fn of the table interface on another receiver than the table
TableOther(fn, table, r) ==
  /\ Usable
  /\ tab' = [tab EXCEPT
                !.t = r.t,
                !.call = [op |-> "other", fn |-> fn, table |-> table,
                          key |-> ValSmall(1), value |-> ValSmall(7),
                          ret |-> r.ret, n |-> tab.t.next_index]]
  /\ TableFrame

\* a call that returns at its test of the receiver never consults the
\* oracle of undefined behaviour
OtherAny ==
  \E table \in NonTables, ub \in {"crash"} :
     \/ TableOther("set", table,
                   org_table_set(tab.t, table, ValSmall(1), ValSmall(7), ub))
     \/ TableOther("push", table,
                   org_table_push(tab.t, table, ValSmall(7), ub))
     \/ TableOther("get", table,
                   TRet(tab.t, org_table_get(tab.t, table, ValSmall(1), ub)))
     \/ TableOther("get_cstr", table,
                   TRet(tab.t, org_table_get_cstr(tab.t, table, <<97>>, ub)))
     \/ TableOther("has", table,
                   TRet(tab.t, org_table_has(tab.t, table, ValSmall(1), ub)))

TableNext ==
  \/ SetAny \/ PushNext \/ GetAny \/ HasAny \/ TableCount
  \/ GetCstrAny \/ OtherAny

TableSpec == TableInit /\ [][TableNext]_vars

\* Fill driver: a fresh table is filled with MaxFill entries, by
\* org_table_set under the keys 0, 1, 2, ... or by org_table_push, and
\* looked into.
FillSet ==
  /\ tab.pushed = <<>>
  /\ tab.t.count < MaxFill
  /\ TableSet(ValSmall(tab.t.count), ValSmall(tab.t.count))

FillPush ==
  /\ ~tab.anyset
  /\ tab.t.next_index < MaxFill
  /\ TablePush(ValSmall(tab.t.next_index))

FillKeys == {ValSmall(0), ValSmall(6), ValSmall(MaxFill - 1)}

FillGet == \E key \in FillKeys : TableGet(key)

FillHas == \E key \in FillKeys : TableHas(key)

FillNext == FillSet \/ FillPush \/ FillGet \/ FillHas \/ TableCount

FillSpec == TableInit /\ [][FillNext]_vars

\* Sizing driver: org_table_new_sized is called once with an expected size
\* drawn from all values of uint32_t.
SizedInit ==
  /\ HdrIdle
  /\ ArenaIdle
  /\ SmallIdle
  /\ NumIdle
  /\ GmpIdle
  /\ \E expected \in 0..(TwoToU - 1) :
       tab = [t |-> NULL, shadow |-> NULL, pushed |-> NULL, anyset |-> FALSE,
              call |-> [op |-> "idle", expected |-> expected,
                        ret |-> Imm(ORG_UNUSED)]]
  /\ lastOp = Op("boot", 0, 0, 0)
  /\ nops = 0

\* the call does not return when its rounding loop does not end
NewSized ==
  /\ tab.call.op = "idle"
  /\ \E cap \in {RoundUp(TABLE_INITIAL_CAP, tab.call.expected)} :
       tab' = IF cap = 0
              THEN [tab EXCEPT !.call.op = "new_sized", !.call.ret = Hang]
              ELSE [tab EXCEPT !.t = org_table_new_sized(tab.call.expected),
                               !.call.op = "new_sized",
                               !.call.ret = TableValue]
  /\ TableFrame

SizedNext == NewSized

SizedSpec == SizedInit /\ [][SizedNext]_vars

(***************************************************************************)
(* Vocabulary of the properties.                                           *)
(***************************************************************************)
Range(s) == {s[i] : i \in 1..Len(s)}

Count(s, x) == Cardinality({i \in 1..Len(s) : s[i] = x})

RECURSIVE QueueFrom(_, _)
QueueFrom(f, fuel) ==
  IF f = NULL \/ fuel = 0 THEN <<>>
  ELSE <<f>> \o QueueFrom(fibers[f].next, fuel - 1)

ReadyQueue == QueueFrom(sched.ready_head, Len(fibers) + 1)

Pumps == {f \in 1..Len(fibers) : fibers[f].resume = "org_pump_task"}

IsPrefix(s, t) == Len(s) <= Len(t) /\ \A i \in 1..Len(s) : s[i] = t[i]

\* C3: org_sched_run resumes fibers in exactly the order in which they were
\* appended to the ready queue (by org_sched_spawn or by a pump's self
\* re-enqueue): the resume history is a prefix of the enqueue history, and
\* the fibers still waiting are the rest of it, in order.
C3_Fifo ==
  /\ IsPrefix(res, enq)
  /\ ~crashed => ReadyQueue = SubSeq(enq, Len(res) + 1, Len(enq))

\* A pump was resumed three times among sink tasks and another fiber waits.
C3_Witness ==
  /\ \E p \in Pumps : Count(res, p) >= 3
  /\ Len(ReadyQueue) >= 2
  /\ Cardinality(Range(res)) >= 4

Pos(f) == CHOOSE i \in 1..Len(ReadyQueue) : ReadyQueue[i] = f

PumpIter(p) == heap[fibers[p].state].list_val[1]

PumpSink(p) == heap[fibers[p].state].list_val[2]

\* the list a pump's list iterator walks
PumpList(p) == heap[heap[PumpIter(p)].state].list_val[1]

\* the calls made by the sink tasks that pump p spawned, on p's sink
SinkCalls(p) ==
  SelectSeq(calls, LAMBDA c : /\ c.fiber # 0
                              /\ fibers[c.fiber].resume = "org_sink_task"
                              /\ spawnedBy[c.fiber] = p
                              /\ c.this = PumpSink(p)
                              /\ c.fn = heap[heap[PumpSink(p)].def].step)

Delivered(p) == [i \in 1..Len(SinkCalls(p)) |-> SinkCalls(p)[i].right]

IsErrorString(v) ==
  v # NULL /\ heap[v].type = "ORG_STR_TYPE" /\ heap[v].str_val = STR_Error

RECURSIVE UpToStop(_)
UpToStop(items) ==
  IF items = <<>> \/ Head(items) = NULL \/ IsErrorString(Head(items)) THEN <<>>
  ELSE <<Head(items)>> \o UpToStop(Tail(items))

\* C1 as stated: once the ready queue has drained, the sink's step has been
\* invoked exactly N times for a pump over an N-element list, the k-th
\* invocation receiving the k-th element, for every list.
C1_EveryList ==
  sched.ready_head = NULL =>
    \A p \in Pumps : Delivered(p) = heap[PumpList(p)].list_val

\* C1 as amended: once the ready queue has drained, the sink's step has been
\* invoked exactly once for each list element that precedes the first element
\* that is null or the string "Error", in list order (all N elements when the
\* list has no such element).
C1_UpToStop ==
  sched.ready_head = NULL =>
    \A p \in Pumps : Delivered(p) = UpToStop(heap[PumpList(p)].list_val)

\* A drained pipeline over a two-element list delivered two different
\* elements.
C1_Witness ==
  /\ sched.ready_head = NULL
  /\ \E p \in Pumps :
       /\ Len(heap[PumpList(p)].list_val) = 2
       /\ Len(Delivered(p)) = 2
       /\ Delivered(p)[1] # Delivered(p)[2]

\* C2: a pump's values reach its sink in emission order: at most one sink
\* task spawned by a pump is still waiting, it waits ahead of the pump in the
\* ready queue, and so it has been resumed whenever that pump is at the head
\* (about to pull its next value), for any number of pumps in the queue.
C2_SinkBeforeNextPull ==
  \A p \in Pumps :
    LET pend == {f \in 1..Len(fibers) : spawnedBy[f] = p /\ f \notin Range(res)}
    IN /\ Cardinality(pend) <= 1
       /\ \A f \in pend :
            /\ f \in Range(ReadyQueue)
            /\ p \in Range(ReadyQueue) => Pos(f) < Pos(p)
       /\ sched.ready_head = p => pend = {}

\* Two pumps wait in the ready queue, each behind a sink task it spawned.
C2_Witness ==
  \E p \in Pumps, q \in Pumps :
    /\ p # q
    /\ {p, q} \subseteq Range(ReadyQueue)
    /\ \E f \in Range(ReadyQueue), g \in Range(ReadyQueue) :
         /\ spawnedBy[f] = p /\ spawnedBy[g] = q
         /\ Count(res, p) >= 1 /\ Count(res, q) >= 1

\* C4: pumps waiting in the ready queue take turns: no pump has been resumed
\* twice while another live pump waited, so the step counts of any two pumps
\* that are both in the queue differ by at most one.
C4_RoundRobin ==
  \A p \in Pumps, q \in Pumps :
    {p, q} \subseteq Range(ReadyQueue) => Count(res, p) - Count(res, q) <= 1

\* Two pumps wait in the queue, one resumed twice and the other once.
C4_Witness ==
  \E p \in Pumps, q \in Pumps :
    /\ p # q
    /\ {p, q} \subseteq Range(ReadyQueue)
    /\ Count(res, p) = 2 /\ Count(res, q) = 1

\* C5: org_sched_run eventually returns (every iterator here is finite), and
\* on return ready_head and ready_tail are both null and every fiber that
\* was ever enqueued has been resumed, each enqueue answered by one resume.
C5_RunDrains ==
  /\ running ~> ~running
  /\ [](lastOp.op = "return" =>
          /\ sched.ready_head = NULL
          /\ sched.ready_tail = NULL
          /\ res = enq)

\* org_sched_run returned after resuming at least five fibers, one of them a
\* pump that stepped three times.
C5_Witness ==
  /\ lastOp.op = "return"
  /\ Len(res) >= 5
  /\ \E p \in Pumps : Count(res, p) = 3

\* the step just taken resumed a pump, which pulled a value
PumpStepped ==
  /\ lastOp'.op = "step"
  /\ ~crashed'
  /\ fibers[sched.ready_head].resume = "org_pump_task"
  /\ Len(pulls') > Len(pulls)

\* C6 as stated: a pump step that pulls end-of-stream or the error sentinel
\* (the value org_error_make builds; the program's string "Error" is taken
\* for one as well) spawns no sink task and does not re-enqueue the pump, so
\* no sink observes the error value; a step that pulls any other value
\* spawns exactly one sink task for it and re-enqueues the pump exactly once.
C6_RetiresOnSentinel ==
  [][PumpStepped =>
       LET f == sched.ready_head
           v == pulls'[Len(pulls')].ret
           new == Len(fibers) + 1
       IN IF \/ v = NULL
             \/ heap'[v].type = "ORG_ERROR_TYPE"
             \/ (heap'[v].type = "ORG_STR_TYPE" /\ heap'[v].str_val = STR_Error)
          THEN Len(fibers') = Len(fibers) /\ enq' = enq
          ELSE /\ Len(fibers') = new
               /\ fibers'[new].resume = "org_sink_task"
               /\ heap'[fibers'[new].state].list_val = <<v, PumpSink(f)>>
               /\ enq' = enq \o <<new, f>>]_vars

\* the operation just performed was `left -> right` with a list left and a
\* Resource Instance right
FlowToSink ==
  /\ lastOp'.op = "flow"
  /\ ~crashed'
  /\ TypeOf(M, lastOp'.a) = "ORG_LIST_TYPE"
  /\ TypeOf(M, lastOp'.b) = "ORG_RESOURCE_INSTANCE_TYPE"

\* exactly one fiber was enqueued, a pump over left into right; nothing was
\* pulled and no function was called
OnePumpEnqueued ==
  LET new == Len(fibers) + 1
  IN /\ Len(fibers') = new
     /\ fibers'[new].resume = "org_pump_task"
     /\ enq' = Append(enq, new)
     /\ heap'[heap'[heap'[fibers'[new].state].list_val[1]].state].list_val[1]
          = lastOp'.a
     /\ heap'[fibers'[new].state].list_val[2] = lastOp'.b
     /\ pulls' = pulls
     /\ calls' = calls

Iterable(v) ==
  \/ TypeOf(M, v) \in {"ORG_ITERATOR_TYPE", "ORG_LIST_TYPE", "ORG_PAIR_TYPE"}
  \/ /\ TypeOf(M, v) = "ORG_RESOURCE_INSTANCE_TYPE"
     /\ heap[heap[v].def].next # NULL

\* the values handed to the transform by Map Iterators, in call order
MapArgs ==
  LET c == SelectSeq(calls, LAMBDA x : x.fn = ProgramStart.fn_9
                                       /\ x.this = ProgramStart.fn_9)
  IN [i \in 1..Len(c) |-> c[i].right]

\* the values Map Iterators pulled from their upstreams, in pull order
MapPulled ==
  LET q == SelectSeq(pulls, LAMBDA x : x.by = "map" /\ x.ret # NULL)
  IN [i \in 1..Len(q) |-> q[i].ret]

MapPulledNoError ==
  LET q == SelectSeq(pulls, LAMBDA x : x.by = "map" /\ x.ret # NULL
                                       /\ ~IsErrorString(x.ret))
  IN [i \in 1..Len(q) |-> q[i].ret]

\* `left -> f` returned a Map Iterator over left and did nothing else
LazyMap ==
  (/\ lastOp'.op = "flow"
   /\ ~crashed'
   /\ Iterable(lastOp'.a)
   /\ TypeOf(M, lastOp'.b) = "ORG_FUNC_TYPE")
  => LET it == lastOp'.ret
         st == heap'[heap'[it].state].list_val
     IN /\ heap'[it].type = "ORG_ITERATOR_TYPE"
        /\ heap'[it].next = "map_iterator_next"
        /\ st[2] = lastOp'.b
        /\ heap'[st[1]].type = "ORG_ITERATOR_TYPE"
        /\ calls' = calls /\ pulls' = pulls
        /\ sched' = sched /\ fibers' = fibers /\ enq' = enq

\* C8 as stated: `left -> f` returns a Map Iterator and calls f zero times,
\* pulls nothing and leaves the ready queue unchanged; f is called only in
\* pulls, once per upstream value and in upstream order.
C8_OncePerValue ==
  [][/\ LazyMap
     /\ calls' # calls => lastOp'.op = "pull"
     /\ ~crashed' => MapArgs' = MapPulled']_vars

\* C8 as amended: as above, but f is called once per upstream value that is
\* not a string equal to "Error", in upstream order; such a string is passed
\* through without calling f.
C8_OncePerNonErrorValue ==
  [][/\ LazyMap
     /\ calls' # calls => lastOp'.op = "pull"
     /\ ~crashed' => MapArgs' = MapPulledNoError']_vars

\* A Map Iterator was pulled twice and f received both upstream values.
C8_Witness ==
  /\ lastOp.op = "pull"
  /\ heap[lastOp.a].next = "map_iterator_next"
  /\ lastOp.ret # NULL
  /\ Len(MapArgs) = 2
  /\ MapArgs = MapPulled

\* C9 as stated: `left -> R` with R a Resource Definition returns a Scoped
\* Iterator, enqueues no fiber and calls no setup; its upstream is left
\* itself when left is an Iterator, a list iterator over left when left is a
\* list, and an iterator delegating to the definition's next when left is a
\* Resource Instance whose definition has next.
C9_ScopedUpstream ==
  [][(/\ lastOp'.op = "flow"
      /\ ~crashed'
      /\ TypeOf(M, lastOp'.b) = "ORG_RESOURCE_TYPE")
     => LET it == lastOp'.ret
            left == lastOp'.a
            up == heap'[heap'[it].state].upstream
        IN /\ heap'[it].type = "ORG_ITERATOR_TYPE"
           /\ heap'[it].next = "scoped_iterator_next"
           /\ heap'[heap'[it].state].def = lastOp'.b
           /\ fibers' = fibers /\ sched' = sched /\ enq' = enq
           /\ calls' = calls /\ pulls' = pulls
           /\ TypeOf(M, left) = "ORG_ITERATOR_TYPE" => up = left
           /\ TypeOf(M, left) = "ORG_LIST_TYPE" =>
                /\ heap'[up].next = "list_iterator_next"
                /\ heap'[heap'[up].state].list_val[1] = left
           /\ (/\ TypeOf(M, left) = "ORG_RESOURCE_INSTANCE_TYPE"
               /\ heap[heap[left].def].next # NULL) =>
                /\ heap'[up].next = "resource_iterator_next"
                /\ heap'[up].state = left]_vars

\* the Scoped Iterators of definition d that have been pulled
PulledScoped(d) ==
  {q.it : q \in {x \in Range(pulls) :
                   /\ heap[x.it].next = "scoped_iterator_next"
                   /\ heap[heap[x.it].state].def = d}}

\* the setup calls made by Scoped Iterators of definition d
SetupCalls(d) ==
  {i \in 1..Len(calls) : /\ calls[i].fn = heap[d].setup
                         /\ calls[i].this = heap[d].setup}

\* C10 as stated: over any sequence of pulls, a Scoped Iterator whose
\* definition has a setup function invokes setup exactly once, whatever
\* setup returned: there are as many setup calls as pulled Scoped Iterators.
C10_SetupOnce ==
  \A d \in {org_var_Tracked, org_var_stdin} :
    ~crashed => Cardinality(SetupCalls(d)) = Cardinality(PulledScoped(d))

\* the calls made by the step just taken
NewCalls == SubSeq(calls', Len(calls) + 1, Len(calls'))

\* the step just taken pulled Scoped Iterator it at top level: the program
\* pulled it, or the pump resumed is a pump of it
ScopedPulled(it) ==
  /\ ~crashed'
  /\ heap[it].next = "scoped_iterator_next"
  /\ IsFunc(M, heap[heap[heap[it].state].def].teardown)
  /\ \/ lastOp'.op = "pull" /\ lastOp'.a = it
     \/ PumpStepped /\ PumpIter(sched.ready_head) = it

\* the step just taken called the teardown of Scoped Iterator it with the
\* context it caches
TornDown(it) ==
  \E i \in 1..Len(NewCalls) :
    /\ NewCalls[i].fn = heap[heap[heap[it].state].def].teardown
    /\ NewCalls[i].left = heap'[heap[it].state].context

\* C11 as stated: a pull of a Scoped Iterator whose upstream returns
\* end-of-stream or an error value (the value org_error_make builds) calls
\* the definition's teardown with the cached context, and a pull that yields
\* another value does not; so a pump that retires on its Scoped Iterator
\* (the pipeline stops on end or on error) has torn the resource down.
C11_TeardownOnStop ==
  [][\A it \in held :
       ScopedPulled(it) =>
         LET v == pulls'[Len(pulls')].ret
         IN /\ (v = NULL \/ heap'[v].type = "ORG_ERROR_TYPE") <=> TornDown(it)
            /\ (PumpStepped /\ enq' = enq) => TornDown(it)]_vars

\* C12: `@` applied to a Resource Definition returns a new Resource Instance
\* of it, calls the definition's setup exactly once when it has one (and
\* calls nothing otherwise), stores what setup returned as the instance state
\* and puts the instance at the head of the resource list of the arena it
\* was given, leaving other arenas alone; applied to any other value it
\* returns the operand and changes nothing: no call, no registration.
C12_Instantiate ==
  [][(lastOp'.op = "at" /\ ~crashed' /\ lastOp'.b # NULL) =>
       LET a == lastOp'.a
           right == lastOp'.b
           ret == lastOp'.ret
       IN IF heap[right].type = "ORG_RESOURCE_TYPE"
          THEN /\ ret \notin 1..Len(heap)
               /\ heap'[ret].type = "ORG_RESOURCE_INSTANCE_TYPE"
               /\ heap'[ret].def = right
               /\ IF IsFunc(M, heap[right].setup)
                  THEN /\ Len(NewCalls) = 1
                       /\ NewCalls[1].fn = heap[right].setup
                       /\ NewCalls[1].right = NULL
                       /\ heap'[ret].state = NewCalls[1].ret
                  ELSE NewCalls = <<>> /\ heap'[ret].state = NULL
               /\ arenas'[a].resources_head = ret
               /\ heap'[ret].next_resource = arenas[a].resources_head
               /\ \A o \in 1..Len(arenas) : o # a => arenas'[o] = arenas[o]
          ELSE /\ ret = right
               /\ calls' = calls
               /\ arenas' = arenas
               /\ heap' = heap]_vars

\* Tracked was instantiated on the second arena for the second time: the new
\* instance heads that arena's list, in front of the earlier one, and holds
\* the state its setup returned.
C12_Witness ==
  /\ lastOp.op = "at"
  /\ lastOp.a = 2 /\ lastOp.b = org_var_Tracked
  /\ arenas[2].resources_head = lastOp.ret
  /\ heap[lastOp.ret].next_resource # NULL
  /\ heap[lastOp.ret].state # NULL
  /\ heap[heap[lastOp.ret].state].str_val = STR_TrackedState
  /\ calls[Len(calls)].ret = heap[lastOp.ret].state

\* the Resource Instances on a resource list, from its head
RECURSIVE Registered(_, _)
Registered(curr, fuel) ==
  IF curr = NULL \/ fuel = 0 THEN <<>>
  ELSE <<curr>> \o Registered(heap[curr].next_resource, fuel - 1)

\* the instances registered on arena a whose definition has a teardown
ToTearDown(a) ==
  SelectSeq(Registered(arenas[a].resources_head, Len(heap)),
            LAMBDA i : IsFunc(M, heap[heap[i].def].teardown))

\* C13: arena_free(a) calls the teardown of every Resource Instance that is
\* registered on a and whose definition has one, exactly once and with that
\* instance's state, while a's memory is still allocated; it makes no other
\* call, so none for an instance registered on another arena; then a's
\* memory is released and no other arena is touched.
C13_FreeTearsDown ==
  [][(lastOp'.op = "free" /\ ~crashed') =>
       LET a == lastOp'.a
           t == ToTearDown(a)
       IN /\ Len(NewCalls) = Len(t)
          /\ \A i \in 1..Len(t) :
               /\ NewCalls[i].fn = heap[heap[t[i]].def].teardown
               /\ NewCalls[i].left = heap[t[i]].state
               /\ NewCalls[i].arena = a
               /\ NewCalls[i].live
          /\ ~arenas'[a].data
          /\ \A o \in 1..Len(arenas) : o # a => arenas'[o] = arenas[o]]_vars

TeardownCalls(a) ==
  {i \in 1..Len(calls) : /\ calls[i].arena = a
                         /\ calls[i].fn = heap[org_var_Tracked].teardown}

\* The second arena was freed with two Tracked instances on it: both were
\* torn down, and the Tracked instance of the first arena was not.
C13_Witness ==
  /\ lastOp.op = "free" /\ lastOp.a = 2
  /\ ~arenas[2].data /\ arenas[1].data
  /\ Cardinality(TeardownCalls(2)) = 2
  /\ Cardinality({calls[i].left : i \in TeardownCalls(2)}) = 2
  /\ TeardownCalls(1) = {}
  /\ org_var_inst \in Range(Registered(arenas[1].resources_head, Len(heap)))

(***************************************************************************)
(* C14: whenever org_sched_run is executing a fiber's resume callback, the *)
(* value org_gmp_get_arena returns equals that fiber's arena: slots[i] is  *)
(* the slot at the i-th resume and res[i] is the fiber resumed.            *)
(***************************************************************************)
C14_SlotIsFiberArena ==
  \A i \in 1..Len(res) : slots[i] = fibers[res[i]].arena

(***************************************************************************)
(* Vocabulary of the arena properties.                                     *)
(***************************************************************************)
\* the page whose region holds address p
PageOf(p) == p - (p % RegionSize)

LivePages == {q \in PageAddrs : pages[q].live}

\* arena_restore(cp) left the arena at the checkpoint: current and used are
\* the checkpoint's, the pages created since the save are freed, the pages
\* that existed at the save are as they were then
RestoredToCheckpoint ==
  lastOp'.op = "restore" =>
     /\ page_arena'.current = cp.page
     /\ pages'[cp.page].used = cp.used
     /\ \A q \in PageAddrs :
           IF saved.pages[q].live
           THEN pages'[q] = saved.pages[q]
           ELSE ~pages'[q].live

\* the step is the first arena_alloc after arena_restore(cp), made with the
\* size and align of the first arena_alloc after cp = arena_save(), and both
\* returned a block
ReallocAfterRestore ==
  /\ lastOp.op = "restore"
  /\ lastOp'.op = "alloc"
  /\ saved.first # NoAlloc
  /\ lastOp'.a = saved.first.size
  /\ lastOp'.b = saved.first.align
  /\ saved.first.ret # NULL
  /\ lastOp'.ret # NULL

(***************************************************************************)
(* C15 as stated: arena_restore(cp) leaves the arena at the checkpoint,    *)
(* and the next arena_alloc(size, align) returns the address that the      *)
(* first arena_alloc(size, align) after the save returned.                 *)
(***************************************************************************)
C15_SameAddress ==
  [][ /\ RestoredToCheckpoint
      /\ ReallocAfterRestore => lastOp'.ret = saved.first.ret ]_vars

(***************************************************************************)
(* C15, amended: arena_restore(cp) leaves the arena at the checkpoint; the *)
(* next arena_alloc(size, align) returns the address of the first one      *)
(* after the save when that one was served from the checkpoint's page, and *)
(* otherwise is served from a newly obtained page again.                   *)
(***************************************************************************)
C15_SameAddressOnCheckpointPage ==
  [][ /\ RestoredToCheckpoint
      /\ ReallocAfterRestore =>
           IF PageOf(saved.first.ret) = saved.cp.page
           THEN lastOp'.ret = saved.first.ret
           ELSE /\ page_arena'.current # page_arena.current
                /\ PageOf(lastOp'.ret) = page_arena'.current ]_vars

\* A checkpoint taken after a first block was restored after one allocation,
\* and the repeated allocation got the same address on the checkpoint's page.
C15_Witness ==
  /\ lastOp.op = "alloc"
  /\ lastOp.ret # NULL
  /\ cp = NoCheckpoint
  /\ saved.cp.used > 0
  /\ saved.first.size = lastOp.a
  /\ saved.first.ret = lastOp.ret
  /\ pages[saved.cp.page].used > saved.cp.used
  /\ Cardinality(LivePages) = 1
  /\ nops = 3

(***************************************************************************)
(* C16: after any sequence of arena_alloc calls with power-of-two align,   *)
(* every page keeps used <= capacity, every block handed out lies inside   *)
(* the data buffer of the page it came from, and the returned address is a *)
(* multiple of align, whatever address the page buffer has.                *)
(***************************************************************************)
C16_BlocksInsidePages ==
  /\ \A q \in LivePages :
        /\ pages[q].used <= pages[q].capacity
        /\ \A i \in 1..Len(pages[q].blocks) :
              /\ DataOf(q) <= pages[q].blocks[i].p
              /\ pages[q].blocks[i].p + pages[q].blocks[i].size
                    <= DataOf(q) + pages[q].capacity
  /\ (lastOp.op = "alloc" /\ lastOp.ret # NULL) => lastOp.ret % lastOp.b = 0

\* the size above which arena_alloc's slow path sizes the page to the block
Outsized(size) == size > page_arena.default_page_size \div 2

(***************************************************************************)
(* C17: no page of the arena ever holds both a block of size greater than  *)
(* default_page_size / 2 and another block.                                *)
(***************************************************************************)
C17_OutsizedAlone ==
  \A q \in LivePages :
     (\E i \in 1..Len(pages[q].blocks) : Outsized(pages[q].blocks[i].size))
        => Len(pages[q].blocks) = 1

(***************************************************************************)
(* C18: for every n in [ORG_SMALL_MIN, ORG_SMALL_MAX], that is             *)
(* [-2^(w-3), 2^(w-3) - 1] for the word width w (64 in the source),        *)
(* untagging the tagged word gives n back with its sign, the tagged word   *)
(* has low bits 01 (is_small, not is_ptr, not is_special), and             *)
(* org_small_fits(n) is true exactly for the n of that range.              *)
(***************************************************************************)
InSmallRange(n) == 0 - 2 ^ (WordBits - 3) <= n /\ n <= 2 ^ (WordBits - 3) - 1

C18_TagRoundTrip ==
  /\ ("tag" \in small.done /\ InSmallRange(small.n)) =>
        /\ small.v % 4 = 1
        /\ ORG_IS_SMALL(small.v)
        /\ ~ORG_IS_PTR(small.v)
        /\ ~ORG_IS_SPECIAL(small.v)
  /\ ("untag" \in small.done /\ InSmallRange(small.n)) => small.back = small.n
  /\ "fits" \in small.done => (small.fits <=> InSmallRange(small.n))

\* The most negative small integer went through tag and untag and came back.
C18_Witness ==
  /\ small.done = {"tag", "untag", "fits"}
  /\ small.n = ORG_SMALL_MIN
  /\ small.back = small.n
  /\ small.fits

(***************************************************************************)
(* Vocabulary of the numeric properties.                                   *)
(***************************************************************************)
\* the mathematical value of an integer value, in either representation
IntOf(v) == IF ORG_IS_SMALL(v.w) THEN ToSigned(v.w - 1) \div 4 ELSE v.num

IsSmallInt(v) == v.w % 4 = 1

IsBigInt(v) == v.w % 4 = 0 /\ v.type = "ORG_TYPE_BIGINT"

IsInt(v) == IsSmallInt(v) \/ IsBigInt(v)

IsRational(v) == v.w % 4 = 0 /\ v.type = "ORG_TYPE_RATIONAL"

IsDecimal(v) == v.w % 4 = 0 /\ v.type = "ORG_TYPE_DECIMAL"

IsError(v) == v.w = 10 /\ v.type = "none"

RECURSIVE Power(_, _)
Power(x, e) == IF e = 0 THEN 1 ELSE x * Power(x, e - 1)

\* an operation was applied to integer operands (org_neg has one operand)
IntOperation ==
  /\ num.op \in {"add", "sub", "mul", "div", "mod", "neg", "pow"}
  /\ IsInt(num.a)
  /\ num.op # "neg" => IsInt(num.b)

(***************************************************************************)
(* C19: every integer result of add, sub, mul, div, mod, neg and pow on    *)
(* integer operands of either representation is an immediate SmallInt when *)
(* its value lies in the small range and a BigInt only otherwise; add,     *)
(* sub, mul and neg always give an integer, and the result of add, sub,    *)
(* mul, neg and pow is the exact value, so a result that overflows the     *)
(* fast path is the exact BigInt and never a wrapped immediate.            *)
(***************************************************************************)
C19_Normalized ==
  IntOperation =>
     /\ num.op \in {"add", "sub", "mul", "neg"} => IsInt(num.r)
     /\ IsInt(num.r) => (IsSmallInt(num.r) <=> InSmallRange(IntOf(num.r)))
     /\ (IsInt(num.r) /\ num.op = "add") =>
           IntOf(num.r) = IntOf(num.a) + IntOf(num.b)
     /\ (IsInt(num.r) /\ num.op = "sub") =>
           IntOf(num.r) = IntOf(num.a) - IntOf(num.b)
     /\ (IsInt(num.r) /\ num.op = "mul") =>
           IntOf(num.r) = IntOf(num.a) * IntOf(num.b)
     /\ (IsInt(num.r) /\ num.op = "neg") => IntOf(num.r) = 0 - IntOf(num.a)
     /\ (IsInt(num.r) /\ num.op = "pow") =>
           IntOf(num.r) = Power(IntOf(num.a), IntOf(num.b))
     /\ (IsInt(num.r) /\ num.op = "div") =>
           IntOf(num.r) * IntOf(num.b) = IntOf(num.a)

\* The most negative immediate was negated: the result is the BigInt one past
\* the largest immediate.
C19_Witness ==
  /\ num.op = "neg"
  /\ IsSmallInt(num.a)
  /\ IntOf(num.a) = 0 - 2 ^ (WordBits - 3)
  /\ IsBigInt(num.r)
  /\ IntOf(num.r) = 2 ^ (WordBits - 3)

IsNumeric(v) == IsInt(v) \/ IsRational(v) \/ IsDecimal(v)

\* the mathematical value of a numeric value as a fraction
FracOf(v) == IF IsInt(v) THEN [num |-> IntOf(v), den |-> 1]
             ELSE [num |-> v.num, den |-> v.den]

IsZero(v) == FracOf(v).num = 0

\* gcd(num, den) = 1 and den > 0
Canonical(v) ==
  /\ v.den > 0
  /\ \A g \in 2..v.den : ~(v.den % g = 0 /\ v.num % g = 0)

\* add, sub, mul or div was applied to two numeric operands, the divisor of
\* div not being zero
PromotedOperation ==
  /\ num.op \in {"add", "sub", "mul", "div"}
  /\ IsNumeric(num.a) /\ IsNumeric(num.b)
  /\ num.op = "div" => ~IsZero(num.b)

\* Int / Int is an integer when the remainder is zero and a canonical
\* Rational otherwise; any other operation on two integers is an integer
IntByInt ==
  IF num.op = "div" /\ IntOf(num.a) % Abs(IntOf(num.b)) # 0
  THEN IsRational(num.r) /\ Canonical(num.r)
  ELSE IsInt(num.r)

\* the result is the exact value of the operation on the operands, compared
\* by cross-multiplication
ExactResult ==
  \E x \in {FracOf(num.a)}, y \in {FracOf(num.b)}, z \in {FracOf(num.r)} :
     CASE num.op = "add" -> z.num * (x.den * y.den)
                              = z.den * (x.num * y.den + y.num * x.den)
       [] num.op = "sub" -> z.num * (x.den * y.den)
                              = z.den * (x.num * y.den - y.num * x.den)
       [] num.op = "mul" -> z.num * (x.den * y.den) = z.den * (x.num * y.num)
       [] num.op = "div" -> z.num * (x.den * y.num) = z.den * (x.num * y.den)

(***************************************************************************)
(* C20 as stated: for numeric operands and each of add, sub, mul and div   *)
(* (a zero divisor set aside), the result is a Decimal if either operand   *)
(* is a Decimal, otherwise a Rational if either operand is a Rational,     *)
(* otherwise an Integer, Int / Int being an integer when the remainder is  *)
(* zero and a canonical Rational otherwise.                                *)
(***************************************************************************)
C20_PromotionMatrix ==
  PromotedOperation =>
     IF IsDecimal(num.a) \/ IsDecimal(num.b) THEN IsDecimal(num.r)
     ELSE IF IsRational(num.a) \/ IsRational(num.b) THEN IsRational(num.r)
     ELSE IntByInt

(***************************************************************************)
(* C20, amended: as above, except that with a Rational and no Decimal      *)
(* operand the result is the exact value as a canonical Rational of        *)
(* denominator other than 1, or as an integer when the denominator of the  *)
(* exact value reduces to 1.                                               *)
(***************************************************************************)
C20_PromotionMatrixNormalized ==
  PromotedOperation =>
     IF IsDecimal(num.a) \/ IsDecimal(num.b) THEN IsDecimal(num.r)
     ELSE IF IsRational(num.a) \/ IsRational(num.b)
          THEN /\ ExactResult
               /\ \/ IsInt(num.r)
                  \/ IsRational(num.r) /\ Canonical(num.r) /\ num.r.den # 1
     ELSE IntByInt

\* One half was added to one half: the result is the immediate integer 1.
C20_Witness ==
  /\ num.op = "add"
  /\ IsRational(num.a) /\ num.a.num = 1 /\ num.a.den = 2
  /\ num.b = num.a
  /\ IsSmallInt(num.r) /\ IntOf(num.r) = 1

\* an operation of two operands was applied
BinaryOps ==
  {"add", "sub", "mul", "div", "mod", "pow", "eq", "ne", "lt", "le", "gt", "ge"}

Comparisons == {"eq", "ne", "lt", "le", "gt", "ge"}

\* an operand the operation reads is ORG_ERROR
ErrorOperand ==
  \/ num.op \in BinaryOps /\ (IsError(num.a) \/ IsError(num.b))
  \/ num.op = "neg" /\ IsError(num.a)

(***************************************************************************)
(* C21: add, sub, mul, div, mod, pow, neg and the six comparisons return   *)
(* ERROR whenever an operand is ERROR, whatever the other operand is; a    *)
(* comparison with ERROR is never TRUE or FALSE.                           *)
(***************************************************************************)
C21_ErrorsSticky == ErrorOperand => IsError(num.r)

\* A string was compared with ERROR by org_eq: the result is ERROR.
C21_Witness ==
  /\ num.op = "eq"
  /\ num.a.type = "ORG_TYPE_STRING"
  /\ IsError(num.b)
  /\ IsError(num.r)

\* the divisor is zero: immediate 0, BigInt 0, Rational 0 or Decimal 0.0
ZeroDivisor == IsNumeric(num.b) /\ IsZero(num.b)

(***************************************************************************)
(* C22: org_div returns ERROR whenever the divisor is zero in any          *)
(* representation (immediate, BigInt, Rational, Decimal), for every        *)
(* numeric dividend of every representation.                               *)
(***************************************************************************)
C22_DivByZero ==
  (num.op = "div" /\ IsNumeric(num.a) /\ ZeroDivisor) => IsError(num.r)

\* A Decimal was divided by the BigInt zero: the result is ERROR.
C22_Witness ==
  /\ num.op = "div"
  /\ IsDecimal(num.a)
  /\ IsBigInt(num.b) /\ IsZero(num.b)
  /\ IsError(num.r)

(***************************************************************************)
(* C23: org_mod returns ERROR whenever either operand is not an integer    *)
(* or the divisor is zero in any integer representation (immediate 0 or    *)
(* BigInt 0); for all other integer operands it returns an integer.        *)
(***************************************************************************)
C23_ModIntegersOnly ==
  num.op = "mod" =>
     IF ~(IsInt(num.a) /\ IsInt(num.b)) \/ IsZero(num.b)
     THEN IsError(num.r)
     ELSE IsInt(num.r)

IsIntOrRational(v) == IsInt(v) \/ IsRational(v)

\* org_mul(org_div(a, b), b) was computed for an integer or rational a and
\* a non-zero integer or rational b
DivThenMul ==
  /\ num.op = "divmul"
  /\ IsIntOrRational(num.a) /\ IsIntOrRational(num.b)
  /\ ~IsZero(num.b)

\* two numeric values are numerically equal, by cross-multiplication
NumEqual(x, y) == FracOf(x).num * FracOf(y).den = FracOf(y).num * FracOf(x).den

(***************************************************************************)
(* C24: for every integer or rational a and every non-zero integer or      *)
(* rational b, org_mul(org_div(a, b), b) is numerically equal to a, and    *)
(* when a is an immediate integer the result is the identical immediate    *)
(* value.                                                                  *)
(***************************************************************************)
C24_DivMulRoundTrip ==
  DivThenMul =>
     /\ IsNumeric(num.r) /\ NumEqual(num.r, num.a)
     /\ IsSmallInt(num.a) => num.r = num.a

\* 1 was divided by 3 and the Rational 1/3 multiplied by 3: the immediate 1.
C24_Witness ==
  /\ DivThenMul
  /\ IsSmallInt(num.a) /\ IntOf(num.a) = 1
  /\ IsSmallInt(num.b) /\ IntOf(num.b) = 3
  /\ num.r = num.a

\* the values of the state: the operands, built by the constructors, and
\* the result of the operation
Produced == {num.a, num.b, num.r}

(***************************************************************************)
(* C25 as stated: every value of Rational type produced by a constructor   *)
(* or by an arithmetic operation is canonical, gcd(num, den) = 1 and       *)
(* den > 0, and has den # 1.                                               *)
(***************************************************************************)
C25_RationalsNormalized ==
  \A v \in Produced : IsRational(v) => Canonical(v) /\ v.den # 1

(***************************************************************************)
(* C25, amended: every value of Rational type produced by a constructor    *)
(* or by an arithmetic operation is canonical, and one produced by an      *)
(* arithmetic operation has den # 1.                                       *)
(***************************************************************************)
C25_RationalsCanonical ==
  /\ \A v \in Produced : IsRational(v) => Canonical(v)
  /\ IsRational(num.r) => num.r.den # 1

\* The Rational 2/1 of the constructor was added to 1/2: the Rational 5/2.
C25_Witness ==
  /\ num.op = "add"
  /\ IsRational(num.a) /\ num.a.num = 2 /\ num.a.den = 1
  /\ IsRational(num.b) /\ num.b.num = 1 /\ num.b.den = 2
  /\ IsRational(num.r) /\ num.r.num = 5 /\ num.r.den = 2

\* the exact mathematical order of two numeric values: -1, 0 or 1
Order(x, y) == Sgn(FracOf(x).num * FracOf(y).den - FracOf(y).num * FracOf(x).den)

\* what a comparison says of two values in the order c
Holds(op, c) ==
  CASE op = "eq" -> c = 0
    [] op = "ne" -> c # 0
    [] op = "lt" -> c < 0
    [] op = "le" -> c <= 0
    [] op = "gt" -> c > 0
    [] op = "ge" -> c >= 0

IsTrue(v) == v.w = 6 /\ v.type = "none"

IsFalse(v) == v.w = 2 /\ v.type = "none"

\* exactly one of lt, eq and gt is TRUE of the operands
Trichotomy ==
  Cardinality({r \in {org_lt(num.a, num.b), org_eq(num.a, num.b),
                      org_gt(num.a, num.b)} : IsTrue(r)}) = 1

(***************************************************************************)
(* C26: for numeric operands in any mix of representations each of the six *)
(* comparisons returns exactly TRUE or FALSE according to the exact        *)
(* mathematical order of the two values, so that numerically equal values  *)
(* of different representation compare equal and exactly one of lt, eq, gt *)
(* is TRUE; an ordered comparison with a non-numeric operand returns ERROR.*)
(***************************************************************************)
C26_ExactOrder ==
  num.op \in Comparisons =>
     IF IsNumeric(num.a) /\ IsNumeric(num.b)
     THEN /\ IF Holds(num.op, Order(num.a, num.b))
             THEN IsTrue(num.r) ELSE IsFalse(num.r)
          /\ Trichotomy
     ELSE num.op \in {"lt", "le", "gt", "ge"} => IsError(num.r)

\* The immediate 2 was compared with the Decimal 2.0 by org_eq: TRUE.
C26_Witness ==
  /\ num.op = "eq"
  /\ IsSmallInt(num.a) /\ IntOf(num.a) = 2
  /\ IsDecimal(num.b) /\ num.b.num = 2 /\ num.b.den = 1 /\ num.b.scale = 1
  /\ IsTrue(num.r)

\* the last call on the table returned
Returned == tab.call.ret.type \notin {"SIGSEGV", "HANG"}

\* the key was stored by an earlier set or push
Present(key) == KeyOf(key) \in DOMAIN tab.shadow

(***************************************************************************)
(* C27: after any sequence of org_table_set calls with valid keys, the     *)
(* count of the table is the number of distinct keys set, string keys      *)
(* being distinct by their bytes, and org_table_get of a key returns the   *)
(* value most recently set for it, across any number of doublings of the   *)
(* capacity.                                                               *)
(***************************************************************************)
C27_CountAndGet ==
  tab.pushed = <<>> =>
     /\ Returned
     /\ tab.t.count = Cardinality(DOMAIN tab.shadow)
     /\ (tab.call.op = "get" /\ Present(tab.call.key))
           => tab.call.ret = tab.shadow[KeyOf(tab.call.key)]

IsPowerOfTwo(n) == \E e \in 0..UintBits : n = 2 ^ e

(***************************************************************************)
(* C28: in every reachable state of a table its capacity is a power of two *)
(* not below 8 and count * 100 <= capacity * 75, so that a slot is unused  *)
(* and every probe ends; after 100 distinct inserts into a default table   *)
(* the capacity is at least 256.                                           *)
(***************************************************************************)
C28_LoadFactor ==
  /\ Returned
  /\ IsPowerOfTwo(tab.t.capacity) /\ tab.t.capacity >= 8
  /\ tab.t.count * 100 <= tab.t.capacity * 75
  /\ tab.t.count >= 100 => tab.t.capacity >= 256

\* only pushes have stored into the table
OnlyPushes == ~tab.anyset

(***************************************************************************)
(* C29: each org_table_push stores its value under the immediate integer   *)
(* key that next_index was at the call and then increases next_index by    *)
(* one; next_index starts at 0, never decreases and is not changed by set, *)
(* get or has, so that k pushes on a fresh table are retrievable at the    *)
(* keys 0..k-1 in push order.                                              *)
(***************************************************************************)
C29_PushIndex ==
  /\ tab.call.op = "new" => tab.t.next_index = 0
  /\ tab.call.op = "push" =>
       /\ Returned
       /\ tab.t.next_index = tab.call.n + 1
       /\ org_table_get(tab.t, TableValue, ValSmall(tab.call.n), "crash")
            = tab.call.value
  /\ tab.call.op \in {"set", "get", "has"} => tab.t.next_index = tab.call.n
  /\ OnlyPushes =>
       \A i \in 1..Len(tab.pushed) :
          org_table_get(tab.t, TableValue, ValSmall(i - 1), "crash")
            = tab.pushed[i]

(***************************************************************************)
(* C30: org_table_has returns TRUE exactly when the key is present in the  *)
(* table, an earlier set or push having stored it, and FALSE otherwise,    *)
(* whatever value is stored under the key.                                 *)
(***************************************************************************)
C30_HasIffPresent ==
  tab.call.op = "has" =>
     tab.call.ret = ORG_BOOL(Present(tab.call.key))

\* the last call was made on a receiver that is not a table
OnOther(fn) == tab.call.op = "other" /\ tab.call.fn = fn

(***************************************************************************)
(* C31, as stated: every table operation applied to a receiver that is not *)
(* a table (set, push, get, get_cstr, has) returns ERROR and changes no    *)
(* state.                                                                  *)
(***************************************************************************)
C31_NonTableError ==
  [][tab'.call.op = "other" =>
       /\ tab'.call.ret = Imm(ORG_ERROR)
       /\ tab'.t = tab.t /\ tab'.shadow = tab.shadow]_vars

(***************************************************************************)
(* C31, amended: set, push, get and get_cstr applied to a receiver that is *)
(* not a table return ERROR, has returns FALSE, and none of them changes   *)
(* any state.                                                              *)
(***************************************************************************)
C31_NonTableRejected ==
  [][tab'.call.op = "other" =>
       /\ tab'.call.ret = IF tab'.call.fn = "has"
                          THEN Imm(ORG_FALSE) ELSE Imm(ORG_ERROR)
       /\ tab'.t = tab.t /\ tab'.shadow = tab.shadow]_vars

\* A push on a string object was rejected while the table holds entries.
C31_Witness ==
  /\ OnOther("push")
  /\ tab.call.table.type = "ORG_TYPE_STRING"
  /\ tab.call.ret = Imm(ORG_ERROR)
  /\ tab.t.count > 1 /\ tab.t.next_index > 0

(***************************************************************************)
(* C32: for every table and every NUL-free byte string name,               *)
(* org_table_get_cstr(table, name) returns exactly what                    *)
(* org_table_get(table, org_make_string(name)) returns, the stored value   *)
(* or ERROR on a miss, and it allocates nothing in the arena and modifies  *)
(* no table state.                                                         *)
(***************************************************************************)
C32_GetCstrIsGet ==
  [][tab'.call.op = "get_cstr" =>
       /\ \A i \in 1..Len(tab'.call.key.data) : tab'.call.key.data[i] # 0
       /\ tab'.call.ret = org_table_get(tab.t, TableValue, tab'.call.key, "crash")
       /\ tab'.call.ret = IF Present(tab'.call.key)
                          THEN tab.shadow[KeyOf(tab'.call.key)]
                          ELSE Imm(ORG_ERROR)
       /\ tab'.t = tab.t /\ tab'.shadow = tab.shadow
       /\ UNCHANGED arenavars]_vars

\* A name was found under a string key stored at another address, in a table
\* that also holds integer keys.
C32_Witness ==
  /\ tab.call.op = "get_cstr"
  /\ tab.call.key.data = <<97>> /\ tab.call.ret = ValSmall(7)
  /\ \A k \in StringKeys : k.w # tab.call.key.w
  /\ ValSmall(1) \in DOMAIN tab.shadow
  /\ tab.t.count > 2

(***************************************************************************)
(* C36: every successful org_table_push adds a new entry: the count grows  *)
(* by exactly one and no existing key's value is changed, for any          *)
(* interleaving of push with org_table_set on integer keys.                *)
(***************************************************************************)
C36_PushAddsEntry ==
  [][(tab'.call.op = "push" /\ tab'.call.ret = TableValue) =>
       /\ tab'.t.count = tab.t.count + 1
       /\ \A k \in DOMAIN tab.shadow :
            org_table_get(tab'.t, TableValue, k, "crash")
              = org_table_get(tab.t, TableValue, k, "crash")]_vars

(***************************************************************************)
(* C37: org_table_new_sized(expected) terminates for every 32-bit expected *)
(* value and yields an empty table whose capacity is a power of two not    *)
(* below max(8, expected).                                                 *)
(***************************************************************************)
C37_NewSizedRounds ==
  tab.call.op = "new_sized" =>
     /\ tab.call.ret = TableValue
     /\ tab.t.count = 0 /\ DOMAIN tab.t.entries = {}
     /\ IsPowerOfTwo(tab.t.capacity)
     /\ tab.t.capacity >= TABLE_INITIAL_CAP
     /\ tab.t.capacity >= tab.call.expected

(***************************************************************************)
(* C40: org_mod follows one sign convention for all integer operands: for  *)
(* integers a and b # 0 the result depends only on the mathematical values *)
(* of a and b, not on whether they are immediate or BigInt.                *)
(***************************************************************************)
C40_ModOneConvention ==
  (/\ num.op = "mod"
   /\ org_is_integer(num.a) /\ org_is_integer(num.b)
   /\ to_mpz(num.b) # 0) =>
     num.r = org_mod(wrap_mpz(to_mpz(num.a)), wrap_mpz(to_mpz(num.b)))

\* the step is a call of org_gmp_realloc that returned a block
ReallocStep == lastOp'.op = "realloc" /\ nops' = nops + 1 /\ lastOp'.ret # NULL

\* the block of the call ends at the used offset of the current page
AtEndOfPage ==
  gmp'.call.ptr + gmp'.call.old_size
    = DataOf(page_arena.current) + pages[page_arena.current].used

\* the extra bytes of the call fit the capacity of the current page
ExtraFits ==
  pages[page_arena.current].used + (gmp'.call.new_size - gmp'.call.old_size)
    <= pages[page_arena.current].capacity

\* the pages are as before the step but for the used offset of page q,
\* which advanced by extra (the history of the blocks set aside)
OnlyUsedAdvanced(q, extra) ==
  /\ page_arena' = page_arena
  /\ \A r \in PageAddrs :
       /\ pages'[r].live = pages[r].live
       /\ pages'[r].prev = pages[r].prev
       /\ pages'[r].capacity = pages[r].capacity
       /\ pages'[r].used = pages[r].used + (IF r = q THEN extra ELSE 0)

\* the blocks handed out from the live pages after the step, but the one at p
OtherBlocks(p) ==
  UNION {{pages'[q].blocks[i] : i \in 1..Len(pages'[q].blocks)} :
           q \in {r \in PageAddrs : pages'[r].live}}
    \ {b \in UNION {{pages'[q].blocks[i] : i \in 1..Len(pages'[q].blocks)} :
                      q \in PageAddrs} : b.p = p}

(***************************************************************************)
(* C35: org_gmp_realloc with new_size > old_size returns the same pointer  *)
(* and only advances the page's used offset exactly when the block ends at *)
(* the current page's used offset and the extra bytes fit the page         *)
(* capacity; otherwise it returns a fresh arena block whose first old_size *)
(* bytes equal the old block; with new_size <= old_size it returns the     *)
(* same pointer and changes nothing.  In every case the returned block     *)
(* overlaps no other live allocation.                                      *)
(***************************************************************************)
C35_ReallocInPlaceOrCopy ==
  [][ReallocStep =>
       /\ IF gmp'.call.new_size <= gmp'.call.old_size
          THEN /\ gmp'.call.ret = gmp'.call.ptr
               /\ OnlyUsedAdvanced(page_arena.current, 0)
               /\ pages' = pages /\ gmp'.mem = gmp.mem
          ELSE IF AtEndOfPage /\ ExtraFits
          THEN /\ gmp'.call.ret = gmp'.call.ptr
               /\ OnlyUsedAdvanced(page_arena.current,
                                   gmp'.call.new_size - gmp'.call.old_size)
               /\ gmp'.mem = gmp.mem
          ELSE /\ gmp'.call.ret # gmp'.call.ptr
               /\ \A q \in PageAddrs :
                     \A i \in 1..Len(pages[q].blocks) :
                        pages[q].blocks[i].p # gmp'.call.ret
               /\ BlockWords(gmp'.mem, gmp'.call.ret, gmp'.call.old_size)
                    = BlockWords(gmp.mem, gmp'.call.ptr, gmp'.call.old_size)
               /\ \A a \in DOMAIN gmp.mem : gmp'.mem[a] = gmp.mem[a]
       /\ \A b \in OtherBlocks(gmp'.call.ret) :
             \/ b.p + b.size <= gmp'.call.ret
             \/ gmp'.call.ret + gmp'.call.new_size <= b.p
       /\ DataOf(PageOf(gmp'.call.ret)) <= gmp'.call.ret
       /\ gmp'.call.ret + gmp'.call.new_size
            <= DataOf(PageOf(gmp'.call.ret))
                 + pages'[PageOf(gmp'.call.ret)].capacity]_vars

\* A block that another allocation follows was moved with its limbs to a
\* fresh block of the same page.
C35_Witness ==
  /\ lastOp.op = "realloc" /\ lastOp.ret # NULL
  /\ gmp.call.new_size > gmp.call.old_size
  /\ gmp.call.ret # gmp.call.ptr
  /\ PageOf(gmp.call.ret) = PageOf(gmp.call.ptr)
  /\ BlockWords(gmp.mem, gmp.call.ret, gmp.call.old_size)
       = BlockWords(gmp.mem, gmp.call.ptr, gmp.call.old_size)
  /\ ReadWord(gmp.mem, gmp.call.ret) # Indeterminate
  /\ Cardinality(gmp.owned) = 2
  /\ nops = 3

\* the program pulled a Map Iterator and the pull returned
MapIteratorPulled ==
  /\ lastOp'.op = "pull"
  /\ ~crashed'
  /\ heap[lastOp'.a].next = "map_iterator_next"

NewPulls == SubSeq(pulls', Len(pulls) + 1, Len(pulls'))

\* v is an error value: the value org_error_make builds, or the program's
\* string "Error"
ErrorSentinel(v) ==
  \/ heap'[v].type = "ORG_ERROR_TYPE"
  \/ (heap'[v].type = "ORG_STR_TYPE" /\ heap'[v].str_val = STR_Error)

\* C34: a pull of a Map Iterator whose upstream yields the error value
\* returns that value unchanged and does not invoke the transform; it returns
\* end-of-stream when the upstream ends; for any other upstream value it
\* invokes the transform exactly once, on that value, and returns what the
\* transform returned.  Stated for every Map Iterator of the pipeline that
\* took part in the pull: the transform calls of the step are, in order, the
\* upstream values that are neither null nor an error value.
C34_MapPropagatesError ==
  [][MapIteratorPulled =>
       LET up == NewPulls[Len(NewPulls) - 1].ret
           upstreams == SelectSeq(NewPulls, LAMBDA p : p.by = "map")
           passed == SelectSeq(upstreams,
                       LAMBDA p : p.ret # NULL /\ ~ErrorSentinel(p.ret))
           applied == SelectSeq(NewCalls,
                        LAMBDA c : c.fn = ProgramStart.fn_9
                                   /\ c.this = ProgramStart.fn_9)
       IN /\ [i \in 1..Len(applied) |-> applied[i].right]
               = [i \in 1..Len(passed) |-> passed[i].ret]
          /\ lastOp'.ret = IF up = NULL THEN NULL
                           ELSE IF ErrorSentinel(up) THEN up
                           ELSE applied[Len(applied)].ret]_vars

\* the calls of the teardown of Scoped Iterator it, which receive the
\* context the iterator caches
ScopedTeardowns(it) ==
  LET sc == heap[it].state
      teardown == heap[heap[sc].def].teardown
  IN {i \in 1..Len(calls) : /\ calls[i].fn = teardown
                            /\ calls[i].this = teardown
                            /\ calls[i].left = heap[sc].context}

\* C39: over any sequence of pulls, by the program or by pumps, of a Scoped
\* Iterator that has run its setup, the teardown of its definition is
\* invoked at most once, pulls made after the iterator returned
\* end-of-stream included.
C39_TeardownAtMostOnce ==
  \A it \in held :
    (/\ heap[it].next = "scoped_iterator_next"
     /\ heap[heap[it].state].context # NULL
     /\ ~crashed)
    => Cardinality(ScopedTeardowns(it)) <= 1

\* C38: after any sequence of spawns, dequeues by org_sched_run and pump
\* self re-enqueues, the ready queue is a well-formed list: following next
\* from ready_head ends within as many links as there are fibers (no cycle),
\* its last fiber is ready_tail and ready_tail's next is null, ready_head is
\* null exactly when ready_tail is null, and no fiber occurs in it twice.
C38_ReadyQueueWellFormed ==
  ~crashed =>
    /\ (sched.ready_head = NULL) <=> (sched.ready_tail = NULL)
    /\ Len(ReadyQueue) <= Len(fibers)
    /\ \A i, j \in 1..Len(ReadyQueue) : ReadyQueue[i] = ReadyQueue[j] => i = j
    /\ sched.ready_head # NULL =>
         /\ ReadyQueue[Len(ReadyQueue)] = sched.ready_tail
         /\ fibers[sched.ready_tail].next = NULL

\* A pump that was resumed and put itself back waits at the tail behind the
\* sink task it spawned and a fiber enqueued earlier, after two dequeues.
C38_Witness ==
  /\ ~crashed
  /\ Len(ReadyQueue) >= 3
  /\ sched.ready_tail \in Pumps
  /\ Count(res, sched.ready_tail) >= 1
  /\ fibers[ReadyQueue[Len(ReadyQueue) - 1]].resume = "org_sink_task"
  /\ Len(res) >= 2

\* the arena a Scoped Iterator's cached context names (0 when the context
\* is not an integer), read from heap hp
ScopedArena(hp, it) ==
  LET context == hp[hp[it].state].context
  IN IF context # NULL /\ hp[context].type = "ORG_INT_TYPE"
     THEN atoll(hp[context].str_val) ELSE 0

\* the Resource Instances on a resource list, from instance r on
RECURSIVE ResourcesFrom(_, _, _)
ResourcesFrom(hp, r, fuel) ==
  IF r = NULL \/ fuel = 0 THEN {}
  ELSE {r} \cup ResourcesFrom(hp, hp[r].next_resource, fuel - 1)

OnArena(hp, ars, a) == ResourcesFrom(hp, ars[a].resources_head, Len(hp))

\* the positions in call history cs of the teardowns of Resource Instance h
Teardowns(cs, hp, h) ==
  {i \in 1..Len(cs) : /\ cs[i].fn = hp[hp[h].def].teardown
                      /\ cs[i].left = hp[h].state}

\* Scoped Iterator it wraps, in the middleware Arena, a Map Iterator over a
\* list
ArenaOverMap(it) ==
  /\ heap[it].next = "scoped_iterator_next"
  /\ heap[heap[it].state].def = org_var_Arena
  /\ LET upstream == heap[heap[it].state].upstream
     IN /\ heap[upstream].next = "map_iterator_next"
        /\ heap[heap[heap[upstream].state].list_val[1]].next
             = "list_iterator_next"

\* C33: while the context of a Scoped Iterator names an arena, a pull runs
\* the upstream with that arena as allocation target: the transform is called
\* with it, and the Resource Instance that `@` creates inside the transform
\* is registered on that arena and not on the caller's.  The teardown of such
\* an instance runs in exactly the steps in which the middleware's teardown
\* releases the arena, and once the iterator has returned end-of-stream each
\* instance on its arena has been torn down exactly once.
C33_ScopedArenaTeardown ==
  [][\A it \in held :
       (/\ ArenaOverMap(it)
        /\ ScopedPulled(it)
        /\ ScopedArena(heap', it) # 0) =>
         LET a == ScopedArena(heap', it)
             end == NewPulls[Len(NewPulls)].ret = NULL
             created == {h \in (Len(heap) + 1)..Len(heap') :
                           heap'[h].type = "ORG_RESOURCE_INSTANCE_TYPE"}
             released ==
               \E i \in 1..Len(NewCalls) :
                 /\ NewCalls[i].fn = heap[org_var_Arena].teardown
                 /\ NewCalls[i].left = heap'[heap[it].state].context
         IN /\ \A i \in 1..Len(NewCalls) :
                 NewCalls[i].fn = ProgramStart.fn_10 => NewCalls[i].arena = a
            /\ \A h \in created : /\ h \in OnArena(heap', arenas', a)
                                  /\ h \notin OnArena(heap', arenas', 1)
            /\ \A h \in OnArena(heap', arenas', a) :
                 /\ (Teardowns(NewCalls, heap', h) # {}) <=> released
                 /\ end => Cardinality(Teardowns(calls', heap', h)) = 1]_vars

====
